---- MODULE Spec2Model ----
(***************************************************************************)
(* Model of the tabular similarity engine of realsirjoe/extest:            *)
(*   src/comparison/normalization.py  (cell canonicalisation)              *)
(*   src/comparison/similarity.py     (similarity kernels)                 *)
(*   src/comparison/csv_compare.py    (key search, row alignment, column   *)
(*                                     mapping, scoring, report)           *)
(*                                                                         *)
(* A raw cell is a sequence of one-character strings; Python's None is the *)
(* one-element sequence None.  Floating-point scores are modelled as exact *)
(* rationals <<numerator, denominator>> in lowest terms.                   *)
(***************************************************************************)
EXTENDS Integers, Sequences, FiniteSets, TLC

VARIABLES
    pc,          \* position of the running call
    x,           \* cell argument of a kernel call
    y,           \* second cell argument of a kernel call
    canon1,      \* canonical_scalar(x)
    canon2,      \* canonical_scalar(canonical_scalar(x))
    sim,         \* value_similarity(x, y)
    sim_swapped, \* value_similarity(y, x)
    lev,         \* levenshtein_distance(x, y)
    ref_column_profile,  \* profile of a reference column
    cand_column_profile, \* profile of a candidate column
    type_score,          \* type_compatibility_score(reference profile, candidate profile)
    type_score_swapped,  \* type_compatibility_score(candidate profile, reference profile)
    ref,         \* reference CSVTable
    cand,        \* candidate CSVTable
    sample_size, \* sample_size_mapping
    ref_key,     \* key column handed to align_rows_by_key
    cand_key,    \* key column handed to align_rows_by_key
    key_match,   \* result of find_key_match
    alignment,   \* result of align_rows_by_key
    column_mapping, \* result of map_columns
    scoring,     \* result of score_columns
    report,      \* result of compare_csv_files
    cand_shuffled,  \* the candidate with its rows and columns permuted
    report_shuffled \* result of compare_csv_files on the permuted candidate

vars == <<pc, x, y, canon1, canon2, sim, sim_swapped, lev, ref_column_profile,
          cand_column_profile, type_score, type_score_swapped, ref, cand, sample_size,
          ref_key, cand_key, key_match, alignment, column_mapping, scoring, report,
          cand_shuffled, report_shuffled>>

cellVars == <<x, y, canon1, canon2, sim, sim_swapped, lev>>
shuffleVars == <<cand_shuffled, report_shuffled>>
typeVars == <<ref_column_profile, cand_column_profile, type_score, type_score_swapped>>
tableVars == <<ref, cand, sample_size, ref_key, cand_key, key_match,
               alignment, column_mapping, scoring, report, cand_shuffled,
               report_shuffled>>

-----------------------------------------------------------------------------
(* Bounds of the model. *)

\* longest enumerated raw cell of the kernel specification
MaxLen == 3

\* most rows of an enumerated table
MaxRows == 2

-----------------------------------------------------------------------------
(* Exact rationals standing for Python floats. *)

RECURSIVE GCD(_, _)
GCD(a, b) == IF b = 0 THEN a ELSE GCD(b, a % b)

Abs(n) == IF n < 0 THEN -n ELSE n

\* the rational n/d in lowest terms with a positive denominator
Rat(n, d) ==
    LET s == IF d < 0 THEN -1 ELSE 1
        g == GCD(Abs(n), Abs(d))
    IN  <<(s * n) \div g, (s * d) \div g>>

RInt(n) == <<n, 1>>

\* sums and comparisons go through the least common denominator, which keeps
\* every intermediate product small
RAdd(p, q) ==
    LET g == GCD(p[2], q[2])
    IN  Rat(p[1] * (q[2] \div g) + q[1] * (p[2] \div g), p[2] * (q[2] \div g))
RSub(p, q) == RAdd(p, <<-q[1], q[2]>>)
RMul(p, q) == Rat(p[1] * q[1], p[2] * q[2])
RDiv(p, q) == Rat(p[1] * q[2], p[2] * q[1])
RLess(p, q) ==
    LET g == GCD(p[2], q[2])
    IN  p[1] * (q[2] \div g) < q[1] * (p[2] \div g)
RLeq(p, q) == ~RLess(q, p)
RAbs(p) == <<Abs(p[1]), p[2]>>
RMax(p, q) == IF RLess(p, q) THEN q ELSE p

\* the first k decimal digits of r/d (0 <= r < d) as <<digits, remainder>>
RECURSIVE DecimalDigits(_, _, _, _)
DecimalDigits(r, d, k, acc) ==
    IF k = 0 THEN <<acc, r>>
    ELSE DecimalDigits((r * 10) % d, d, k - 1, acc * 10 + ((r * 10) \div d))

\* round(v, 6) for v >= 0, ties to even
Round6(v) ==
    LET whole == v[1] \div v[2]
        fr == DecimalDigits(v[1] % v[2], v[2], 6, 0)
        up == \/ 2 * fr[2] > v[2]
              \/ 2 * fr[2] = v[2] /\ fr[1] % 2 = 1
    IN  Rat(whole * 1000000 + fr[1] + (IF up THEN 1 ELSE 0), 1000000)

Zero == RInt(0)
One == RInt(1)

RECURSIVE Pow10(_)
Pow10(k) == IF k = 0 THEN 1 ELSE 10 * Pow10(k - 1)

-----------------------------------------------------------------------------
(* Characters and Python string primitives. *)

None == <<"None">>

Digits == {"0", "1", "2", "3", "4", "5", "6", "7", "8", "9"}
Whitespace == {" ", "\t"}

UpperLetters == <<"A", "B", "C", "D", "E", "F", "G", "H", "I", "J", "K", "L", "M",
                  "N", "O", "P", "Q", "R", "S", "T", "U", "V", "W", "X", "Y", "Z">>
LowerLetters == <<"a", "b", "c", "d", "e", "f", "g", "h", "i", "j", "k", "l", "m",
                  "n", "o", "p", "q", "r", "s", "t", "u", "v", "w", "x", "y", "z">>

\* a list comprehension evaluated to a list, element by element, once
List(f) == SubSeq(f, 1, Len(f))

\* str.lower() on one character
LowerChar(c) ==
    IF \E i \in 1..26 : UpperLetters[i] = c
    THEN LowerLetters[CHOOSE i \in 1..26 : UpperLetters[i] = c]
    ELSE c

\* str.lower()
Lower(s) == List([i \in 1..Len(s) |-> LowerChar(s[i])])

RECURSIVE LStrip(_)
LStrip(s) == IF s # <<>> /\ Head(s) \in Whitespace THEN LStrip(Tail(s)) ELSE s

RECURSIVE RStrip(_)
RStrip(s) ==
    IF s # <<>> /\ s[Len(s)] \in Whitespace
    THEN RStrip(SubSeq(s, 1, Len(s) - 1))
    ELSE s

\* str.strip()
Strip(s) == RStrip(LStrip(s))

DigitValue(c) == CHOOSE n \in 0..9 : <<"0", "1", "2", "3", "4", "5", "6", "7", "8", "9">>[n + 1] = c

\* int(s) for a sequence of digits ("" is 0)
RECURSIVE DigitsToInt(_)
DigitsToInt(s) ==
    IF s = <<>> THEN 0
    ELSE 10 * DigitsToInt(SubSeq(s, 1, Len(s) - 1)) + DigitValue(s[Len(s)])

\* str(n) for n >= 0
RECURSIVE IntToDigits(_)
IntToDigits(n) ==
    LET d == <<"0", "1", "2", "3", "4", "5", "6", "7", "8", "9">>[(n % 10) + 1]
    IN  IF n < 10 THEN <<d>> ELSE Append(IntToDigits(n \div 10), d)

AllDigits(s) == \A i \in 1..Len(s) : s[i] \in Digits


Zeros(k) == List([i \in 1..k |-> "0"])

-----------------------------------------------------------------------------
(* src/comparison/normalization.py *)

\* is_empty without the strip
is_empty_without_strip(value) ==
    IF value = None THEN TRUE ELSE value = <<>>

is_empty(value) ==
    IF value = None THEN TRUE ELSE Strip(value) = <<>>

normalize_text(value) ==
    IF value = None THEN <<>> ELSE Strip(value)

BoolTrueWords == {<<"t", "r", "u", "e">>, <<"1">>, <<"y", "e", "s">>, <<"y">>}
BoolFalseWords == {<<"f", "a", "l", "s", "e">>, <<"0">>, <<"n", "o">>, <<"n">>}

\* bool | None as "True", "False", "None"
parse_bool(value) ==
    LET s == Lower(normalize_text(value))
    IN  IF s \in BoolTrueWords THEN "True"
        ELSE IF s \in BoolFalseWords THEN "False"
        ELSE "None"

\* _NUMERIC_RE.match(s): ^[+-]?(?:\d+\.?\d*|\.\d+)$
NumericMatch(s) ==
    LET body == IF s # <<>> /\ Head(s) \in {"+", "-"} THEN Tail(s) ELSE s
        n == Len(body)
    IN  \/ \E i \in 1..n :
              /\ AllDigits(SubSeq(body, 1, i))
              /\ \/ i = n
                 \/ /\ body[i + 1] = "."
                    /\ AllDigits(SubSeq(body, i + 2, n))
        \/ /\ n >= 2
           /\ body[1] = "."
           /\ AllDigits(SubSeq(body, 2, n))

\* the absent Decimal
NoDecimal == [ok |-> FALSE, neg |-> FALSE, coeff |-> 0, exp |-> 0]

\* Decimal(s) for s accepted by NumericMatch: sign, coefficient, exponent
DecimalOf(s) ==
    LET neg == Head(s) = "-"
        body == IF Head(s) \in {"+", "-"} THEN Tail(s) ELSE s
        dots == {i \in 1..Len(body) : body[i] = "."}
        dot == IF dots = {} THEN Len(body) + 1 ELSE CHOOSE i \in dots : TRUE
        ip == SubSeq(body, 1, dot - 1)
        fp == SubSeq(body, dot + 1, Len(body))
    IN  [ok |-> TRUE, neg |-> neg, coeff |-> DigitsToInt(ip \o fp), exp |-> -Len(fp)]

\* parse_decimal matching the untrimmed text
parse_decimal_untrimmed(value) ==
    LET s == IF value = None THEN <<>> ELSE value
    IN  IF s = <<>> \/ ~NumericMatch(s) THEN NoDecimal ELSE DecimalOf(s)

parse_decimal(value) ==
    LET s == normalize_text(value)
    IN  IF s = <<>> \/ ~NumericMatch(s) THEN NoDecimal ELSE DecimalOf(s)

\* Decimal.normalize(): trailing zeros of the coefficient move to the exponent
RECURSIVE DecimalNormalize(_)
DecimalNormalize(d) ==
    IF d.coeff = 0 THEN [d EXCEPT !.exp = 0]
    ELSE IF d.coeff % 10 = 0
         THEN DecimalNormalize([d EXCEPT !.coeff = d.coeff \div 10, !.exp = d.exp + 1])
         ELSE d

\* format(d, "f")
DecimalFormatF(d) ==
    LET sign == IF d.neg THEN <<"-">> ELSE <<>>
        ds == IntToDigits(d.coeff)
        k == -d.exp
    IN  IF d.exp >= 0 THEN sign \o ds \o Zeros(d.exp)
        ELSE IF Len(ds) > k
             THEN sign \o SubSeq(ds, 1, Len(ds) - k) \o <<".">>
                       \o SubSeq(ds, Len(ds) - k + 1, Len(ds))
             ELSE sign \o <<"0", ".">> \o Zeros(k - Len(ds)) \o ds

canonical_scalar(value) ==
    IF is_empty(value) THEN <<>>
    ELSE LET b == parse_bool(value)
             d == parse_decimal(value)
         IN  IF b # "None" THEN (IF b = "True" THEN <<"t", "r", "u", "e">>
                                               ELSE <<"f", "a", "l", "s", "e">>)
             ELSE IF d.ok THEN DecimalFormatF(DecimalNormalize(d))
             ELSE normalize_text(value)

-----------------------------------------------------------------------------
(* src/comparison/similarity.py *)

Min2(a, b) == IF a < b THEN a ELSE b
Max2(a, b) == IF a < b THEN b ELSE a

\* LevRow without the deletion term
RECURSIVE LevRow_without_deletion(_, _, _, _)
LevRow_without_deletion(ca, b, prev, curr) ==
    LET j == Len(curr)
    IN  IF j > Len(b) THEN curr
        ELSE LET ins == curr[j] + 1
                 sub == prev[j] + (IF ca = b[j] THEN 0 ELSE 1)
             IN  LevRow_without_deletion(ca, b, prev, Append(curr, Min2(ins, sub)))

\* one row of the dynamic programme: curr for character ca, given prev
RECURSIVE LevRow(_, _, _, _)
LevRow(ca, b, prev, curr) ==
    LET j == Len(curr)
    IN  IF j > Len(b) THEN curr
        ELSE LET ins == curr[j] + 1
                 delete == prev[j + 1] + 1
                 sub == prev[j] + (IF ca = b[j] THEN 0 ELSE 1)
             IN  LevRow(ca, b, prev, Append(curr, Min2(Min2(ins, delete), sub)))

RECURSIVE LevRows(_, _, _, _)
LevRows(a, b, i, prev) ==
    IF i > Len(a) THEN prev
    ELSE LevRows(a, b, i + 1, LevRow(a[i], b, prev, <<i>>))

levenshtein_distance(a0, b0) ==
    IF a0 = b0 THEN 0
    ELSE LET a == IF Len(a0) < Len(b0) THEN b0 ELSE a0
             b == IF Len(a0) < Len(b0) THEN a0 ELSE b0
         IN  IF b = <<>> THEN Len(a)
             ELSE LET last == LevRows(a, b, 1, [j \in 1..(Len(b) + 1) |-> j - 1])
                  IN  last[Len(last)]

\* normalized_levenshtein_similarity dividing by the length of its first
\* argument
normalized_levenshtein_similarity_first_length(a, b) ==
    IF a = b THEN One
    ELSE IF a = <<>> /\ b = <<>> THEN One
    ELSE IF a = <<>> \/ b = <<>> THEN Zero
    ELSE RMax(Zero, RSub(One, Rat(levenshtein_distance(a, b), Len(a))))

normalized_levenshtein_similarity(a, b) ==
    IF a = b THEN One
    ELSE IF a = <<>> /\ b = <<>> THEN One
    ELSE IF a = <<>> \/ b = <<>> THEN Zero
    ELSE LET dist == levenshtein_distance(a, b)
             denom == Max2(Len(a), Len(b))
         IN  IF denom = 0 THEN One
             ELSE RMax(Zero, RSub(One, Rat(dist, denom)))

\* float(d) as an exact rational
DecimalValue(d) ==
    LET m == IF d.exp >= 0 THEN Rat(d.coeff * Pow10(d.exp), 1)
                           ELSE Rat(d.coeff, Pow10(-d.exp))
    IN  IF d.neg THEN <<-m[1], m[2]>> ELSE m

\* value_similarity without the lower clamp max(0.0, ...) of the decimal branch
value_similarity_unclamped(a, b) ==
    IF is_empty(a) /\ is_empty(b) THEN One
    ELSE IF is_empty(a) \/ is_empty(b) THEN Zero
    ELSE LET a_norm == normalize_text(a)
             b_norm == normalize_text(b)
             a_bool == parse_bool(a_norm)
             b_bool == parse_bool(b_norm)
             a_num == parse_decimal(a_norm)
             b_num == parse_decimal(b_norm)
         IN  IF a_norm = b_norm THEN One
             ELSE IF a_bool # "None" /\ b_bool # "None"
                  THEN (IF a_bool = b_bool THEN One ELSE Zero)
             ELSE IF a_num.ok /\ b_num.ok
                  THEN LET a_f == DecimalValue(a_num)
                           b_f == DecimalValue(b_num)
                           denom == RMax(RMax(RAbs(a_f), RAbs(b_f)), One)
                       IN  IF a_f = b_f THEN One
                           ELSE RSub(One, RDiv(RAbs(RSub(a_f, b_f)), denom))
             ELSE normalized_levenshtein_similarity(a_norm, b_norm)

\* value_similarity testing "either empty" before "both empty"
value_similarity_either_first(a, b) ==
    IF is_empty(a) \/ is_empty(b) THEN Zero
    ELSE IF normalize_text(a) = normalize_text(b) THEN One
    ELSE normalized_levenshtein_similarity(normalize_text(a), normalize_text(b))

\* value_similarity without the comparison of two decimals
value_similarity_without_decimals(a, b) ==
    IF is_empty(a) /\ is_empty(b) THEN One
    ELSE IF is_empty(a) \/ is_empty(b) THEN Zero
    ELSE LET a_norm == normalize_text(a)
             b_norm == normalize_text(b)
             a_bool == parse_bool(a_norm)
             b_bool == parse_bool(b_norm)
         IN  IF a_norm = b_norm THEN One
             ELSE IF a_bool # "None" /\ b_bool # "None"
                  THEN (IF a_bool = b_bool THEN One ELSE Zero)
             ELSE normalized_levenshtein_similarity(a_norm, b_norm)

value_similarity(a, b) ==
    IF is_empty(a) /\ is_empty(b) THEN One
    ELSE IF is_empty(a) \/ is_empty(b) THEN Zero
    ELSE LET a_norm == normalize_text(a)
             b_norm == normalize_text(b)
             a_bool == parse_bool(a_norm)
             b_bool == parse_bool(b_norm)
             a_num == parse_decimal(a_norm)
             b_num == parse_decimal(b_norm)
         IN  IF a_norm = b_norm THEN One
             ELSE IF a_bool # "None" /\ b_bool # "None"
                  THEN (IF a_bool = b_bool THEN One ELSE Zero)
             ELSE IF a_num.ok /\ b_num.ok
                  THEN LET a_f == DecimalValue(a_num)
                           b_f == DecimalValue(b_num)
                           denom == RMax(RMax(RAbs(a_f), RAbs(b_f)), One)
                       IN  IF a_f = b_f THEN One
                           ELSE RMax(Zero, RSub(One, RDiv(RAbs(RSub(a_f, b_f)), denom)))
             ELSE normalized_levenshtein_similarity(a_norm, b_norm)

-----------------------------------------------------------------------------
(* Header tokens and header similarity. *)

TokenChars ==
    {"a", "b", "c", "d", "e", "f", "g", "h", "i", "j", "k", "l", "m",
     "n", "o", "p", "q", "r", "s", "t", "u", "v", "w", "x", "y", "z"} \cup Digits

\* _TOKEN_RE.findall(s): the maximal runs of [a-z0-9], left to right
RECURSIVE TokenRuns(_, _, _)
TokenRuns(s, i, run) ==
    IF i > Len(s) THEN (IF run = <<>> THEN <<>> ELSE <<run>>)
    ELSE IF s[i] \in TokenChars THEN TokenRuns(s, i + 1, Append(run, s[i]))
    ELSE IF run = <<>> THEN TokenRuns(s, i + 1, <<>>)
    ELSE <<run>> \o TokenRuns(s, i + 1, <<>>)

\* the alias table of _canon_header_token, as <<token, replacement>>
HeaderAliases ==
    {
      <<<<"c", "r", "u", "m", "b">>, <<"b", "r", "e", "a", "d", "c", "r", "u", "m", "b">>>>,
      <<<<"c", "r", "u", "m", "b", "s">>, <<"b", "r", "e", "a", "d", "c", "r", "u", "m", "b", "s">>>>,
      <<<<"t", "r", "e", "e">>, <<"p", "a", "t", "h">>>>,
      <<<<"d", "e", "t", "a", "i", "l", "s">>, <<"d", "e", "s", "c">>>>,
      <<<<"h", "i", "g", "h", "l", "i", "g", "h", "t", "s">>, <<"e", "y", "e", "c", "a", "t", "c", "h", "e", "r", "s">>>>,
      <<<<"b", "a", "d", "g", "e", "s">>, <<"p", "i", "l", "l", "s">>>>,
      <<<<"r", "e", "v", "i", "e", "w", "s">>, <<"r", "a", "t", "i", "n", "g">>>>,
      <<<<"s", "c", "o", "r", "e">>, <<"v", "a", "l", "u", "e">>>>,
      <<<<"q", "t", "y">>, <<"q", "u", "a", "n", "t", "i", "t", "y">>>>,
      <<<<"p", "a", "c", "k">>, <<"u", "n", "i", "t">>>>,
      <<<<"s", "u", "b", "l", "i", "n", "e">>, <<"s", "u", "b", "h", "e", "a", "d", "l", "i", "n", "e">>>>,
      <<<<"a", "m", "t">>, <<>>>>,
      <<<<"c", "o", "d", "e">>, <<>>>>,
      <<<<"i", "s">>, <<"h", "a", "s">>>>
    }

_canon_header_token(token) ==
    IF token = <<"p", "r", "o", "d", "u", "c", "t">> THEN <<>>
    ELSE IF \E p \in HeaderAliases : p[1] = token
         THEN (CHOOSE p \in HeaderAliases : p[1] = token)[2]
         ELSE token

SelectNonEmpty(ts) == SelectSeq(ts, LAMBDA t : t # <<>>)

header_tokens(name) ==
    LET raw == SelectNonEmpty(TokenRuns(Lower(name), 1, <<>>))
        tokens == List([i \in 1..Len(raw) |-> _canon_header_token(raw[i])])
    IN  SelectNonEmpty(tokens)

\* "".join(tokens)
RECURSIVE Join(_)
Join(ts) == IF ts = <<>> THEN <<>> ELSE Head(ts) \o Join(Tail(ts))

\* length of the common run of a from i and b from j, inside a[..ahi], b[..bhi]
RECURSIVE RunLength(_, _, _, _, _, _)
RunLength(a, b, i, j, ahi, bhi) ==
    IF i <= ahi /\ j <= bhi /\ a[i] = b[j]
    THEN 1 + RunLength(a, b, i + 1, j + 1, ahi, bhi)
    ELSE 0

\* SequenceMatcher.find_longest_match on a[alo..ahi], b[blo..bhi] (1-based,
\* inclusive): the longest common block, earliest in a, then earliest in b
find_longest_match(a, b, alo, ahi, blo, bhi) ==
    LET starts == (alo..ahi) \X (blo..bhi)
        size(p) == RunLength(a, b, p[1], p[2], ahi, bhi)
        best == IF starts = {} THEN 0
                ELSE CHOOSE k \in 0..(ahi - alo + 1) :
                        /\ \A p \in starts : size(p) <= k
                        /\ k = 0 \/ \E p \in starts : size(p) = k
        hits == {p \in starts : size(p) = best}
        i == CHOOSE m \in alo..ahi :
                /\ \E p \in hits : p[1] = m
                /\ \A p \in hits : m <= p[1]
        j == CHOOSE m \in blo..bhi :
                /\ <<i, m>> \in hits
                /\ \A p \in hits : p[1] = i => m <= p[2]
    IN  IF best = 0 THEN <<alo, blo, 0>> ELSE <<i, j, best>>

\* total size of SequenceMatcher.get_matching_blocks()
RECURSIVE MatchingSize(_, _, _, _, _, _)
MatchingSize(a, b, alo, ahi, blo, bhi) ==
    IF alo > ahi \/ blo > bhi THEN 0
    ELSE LET m == find_longest_match(a, b, alo, ahi, blo, bhi)
         IN  IF m[3] = 0 THEN 0
             ELSE m[3] + MatchingSize(a, b, alo, m[1] - 1, blo, m[2] - 1)
                       + MatchingSize(a, b, m[1] + m[3], ahi, m[2] + m[3], bhi)

\* SequenceMatcher(None, a, b).ratio()
SequenceRatio(a, b) ==
    IF Len(a) + Len(b) = 0 THEN One
    ELSE Rat(2 * MatchingSize(a, b, 1, Len(a), 1, Len(b)), Len(a) + Len(b))

SeqToSet(s) == {s[i] : i \in 1..Len(s)}

header_similarity(a, b) ==
    LET a_norm == Join(header_tokens(a))
        b_norm == Join(header_tokens(b))
        a_set == SeqToSet(header_tokens(a))
        b_set == SeqToSet(header_tokens(b))
        seq_ratio == SequenceRatio(a_norm, b_norm)
        jacc == IF a_set = {} /\ b_set = {} THEN One
                ELSE IF a_set = {} \/ b_set = {} THEN Zero
                ELSE Rat(Cardinality(a_set \cap b_set), Cardinality(a_set \cup b_set))
    IN  IF a_norm = <<>> /\ b_norm = <<>> THEN One
        ELSE RMax(seq_ratio, jacc)

\* the header names of the enumerated tables
H_id == <<"i", "d">>
H_name == <<"n", "a", "m", "e">>
H_title == <<"t", "i", "t", "l", "e">>
H_id_code == <<"i", "d", "_", "c", "o", "d", "e">>

KnownHeaders == {H_id, H_name, H_title, H_id_code}

\* header_similarity on the known headers, computed once
HeaderSimilarityTable ==
    [p \in KnownHeaders \X KnownHeaders |-> header_similarity(p[1], p[2])] @@ <<>>

\* header_similarity(a, b), read from the table where it holds the pair
HeaderSimilarityOf(a, b) ==
    IF <<a, b>> \in DOMAIN HeaderSimilarityTable
    THEN HeaderSimilarityTable[<<a, b>>]
    ELSE header_similarity(a, b)

\* the raw cells enumerated for a column
CellsOf(h) ==
    IF h = H_id THEN {<<>>, <<"7">>, <<"8">>}
    ELSE IF h = H_id_code THEN {<<>>, <<"7", ".", "0">>, <<"8">>}
    ELSE {<<"a">>, <<"8">>}

\* every raw cell of the enumerated tables
TableCells == UNION {CellsOf(h) : h \in KnownHeaders}

\* canonical_scalar on the enumerated cells, computed once
CanonicalScalarTable ==
    [c \in TableCells |-> canonical_scalar(c)] @@ <<>>

\* canonical_scalar(v), read from the table where it holds the cell
CanonicalScalarOf(v) ==
    IF v \in DOMAIN CanonicalScalarTable
    THEN CanonicalScalarTable[v]
    ELSE canonical_scalar(v)

\* is_empty on the enumerated cells, computed once
IsEmptyTable ==
    [c \in TableCells |-> is_empty(c)] @@ <<>>

\* is_empty(v), read from the table where it holds the cell
IsEmptyOf(v) ==
    IF v \in DOMAIN IsEmptyTable THEN IsEmptyTable[v] ELSE is_empty(v)

\* value_similarity on the enumerated cells, computed once
ValueSimilarityTable ==
    [p \in TableCells \X TableCells |-> value_similarity(p[1], p[2])] @@ <<>>

\* value_similarity(a, b), read from the table where it holds the pair
ValueSimilarityOf(a, b) ==
    IF <<a, b>> \in DOMAIN ValueSimilarityTable
    THEN ValueSimilarityTable[<<a, b>>]
    ELSE value_similarity(a, b)

\* type_compatibility_score testing the numeric ratios before the boolean
\* ratios
type_compatibility_score_numeric_first(ref_profile, cand_profile) ==
    LET hi(v) == RLeq(Rat(9, 10), v)
    IN  IF hi(ref_profile.numeric_ratio) /\ hi(cand_profile.numeric_ratio) THEN One
        ELSE IF hi(ref_profile.numeric_ratio) # hi(cand_profile.numeric_ratio)
             THEN Rat(2, 10)
        ELSE IF hi(ref_profile.bool_ratio) /\ hi(cand_profile.bool_ratio) THEN One
        ELSE IF hi(ref_profile.bool_ratio) # hi(cand_profile.bool_ratio)
             THEN Rat(1, 10)
        ELSE Rat(8, 10)

\* a profile is read through its numeric_ratio and bool_ratio
type_compatibility_score(ref_profile, cand_profile) ==
    LET r_num == ref_profile.numeric_ratio
        c_num == cand_profile.numeric_ratio
        r_bool == ref_profile.bool_ratio
        c_bool == cand_profile.bool_ratio
        hi(v) == RLeq(Rat(9, 10), v)
    IN  IF hi(r_bool) /\ hi(c_bool) THEN One
        ELSE IF hi(r_bool) # hi(c_bool) THEN Rat(1, 10)
        ELSE IF hi(r_num) /\ hi(c_num) THEN One
        ELSE IF hi(r_num) # hi(c_num) THEN Rat(2, 10)
        ELSE Rat(8, 10)

-----------------------------------------------------------------------------
(* src/comparison/csv_compare.py: tables, profiles, key search.            *)
(* A CSVTable is [headers, rows]; a row holds its cells in header order,   *)
(* as csv.DictReader fills its dict.  Row indices are 1-based here.        *)

\* row.get(h, "")
Get(table, row, h) ==
    LET at == {i \in 1..Len(table.headers) : table.headers[i] = h}
    IN  IF at = {} THEN <<>>
        ELSE row[CHOOSE i \in at : \A k \in at : k <= i]

\* [r.get(h, "") for r in table.rows]
ColumnValues(table, h) ==
    List([i \in 1..Len(table.rows) |-> Get(table, table.rows[i], h)])

\* NonEmpty keeping the empty cells
NonEmpty_keeps_empty(vals) == vals

\* [v for v in vals if not is_empty(v)]
NonEmpty(vals) == SelectSeq(vals, LAMBDA v : ~IsEmptyOf(v))

Canon(vals) == List([i \in 1..Len(vals) |-> CanonicalScalarOf(vals[i])])

\* sum(1 for ... if hit), hits[i] telling whether the i-th item counts
Count(hits) == Cardinality({i \in 1..Len(hits) : hits[i]})

\* non_empty_vals[: min(500, non_empty_count)]
ProfileSampleSize == 500

\* the profile of one column (the fields the engine reads back)
ColumnProfile(table, h) ==
    LET Profile(non_empty_count, unique_non_empty_count, sample) ==
            [ row_count |-> Len(table.rows),
              non_empty_count |-> non_empty_count,
              null_count |-> Len(table.rows) - non_empty_count,
              unique_non_empty_count |-> unique_non_empty_count,
              is_unique_non_empty |->
                  non_empty_count > 0 /\ unique_non_empty_count = non_empty_count,
              numeric_ratio |->
                  IF sample # <<>>
                  THEN Rat(Count(List([i \in 1..Len(sample) |-> parse_decimal(sample[i]).ok])),
                           Len(sample))
                  ELSE Zero,
              bool_ratio |->
                  IF sample # <<>>
                  THEN Rat(Count(List([i \in 1..Len(sample) |-> parse_bool(sample[i]) # "None"])),
                           Len(sample))
                  ELSE Zero ]
        NonEmptyVals(non_empty_vals) ==
            Profile(Len(non_empty_vals),
                    Cardinality(SeqToSet(Canon(non_empty_vals))),
                    SubSeq(non_empty_vals, 1,
                           Min2(ProfileSampleSize, Len(non_empty_vals))))
    IN  NonEmptyVals(NonEmpty(ColumnValues(table, h)))

profile_columns(table) ==
    [h \in SeqToSet(table.headers) |-> ColumnProfile(table, h)] @@ <<>>

\* the (reference column, candidate column) pairs in the order of the two
\* nested loops over ref.headers and cand.headers
HeaderPairs(ref_t, cand_t) ==
    LET nc == Len(cand_t.headers)
    IN  List([k \in 1..(Len(ref_t.headers) * nc) |->
            <<ref_t.headers[((k - 1) \div nc) + 1], cand_t.headers[((k - 1) % nc) + 1]>>])

\* LexLess with the comparison turned round, which sorts ascending
RECURSIVE LexLess_ascending(_, _)
LexLess_ascending(a, b) ==
    IF a = <<>> \/ b = <<>> THEN FALSE
    ELSE IF RLess(Head(b), Head(a)) THEN TRUE
    ELSE IF RLess(Head(a), Head(b)) THEN FALSE
    ELSE LexLess_ascending(Tail(a), Tail(b))

\* lexicographic order on tuples of rationals
RECURSIVE LexLess(_, _)
LexLess(a, b) ==
    IF a = <<>> \/ b = <<>> THEN FALSE
    ELSE IF RLess(Head(a), Head(b)) THEN TRUE
    ELSE IF RLess(Head(b), Head(a)) THEN FALSE
    ELSE LexLess(Tail(a), Tail(b))

\* SortOrder putting a position in front of the earlier positions with an
\* equal key
RECURSIVE SortOrder_ties_reversed(_)
SortOrder_ties_reversed(keys) ==
    IF keys = <<>> THEN <<>>
    ELSE LET n == Len(keys)
             front == SortOrder_ties_reversed(SubSeq(keys, 1, n - 1))
             keep == {i \in 1..Len(front) : LexLess(keys[n], keys[front[i]])}
             at == IF keep = {} THEN 0 ELSE CHOOSE i \in keep : \A k \in keep : k <= i
         IN  SubSeq(front, 1, at) \o <<n>> \o SubSeq(front, at + 1, Len(front))

\* the order list.sort(key=..., reverse=True) puts positions 1..Len(keys)
\* in: descending keys, equal keys keep their order
RECURSIVE SortOrder(_)
SortOrder(keys) ==
    IF keys = <<>> THEN <<>>
    ELSE LET n == Len(keys)
             front == SortOrder(SubSeq(keys, 1, n - 1))
             \* n goes behind every position whose key is not smaller
             keep == {i \in 1..Len(front) : ~LexLess(keys[front[i]], keys[n])}
             at == IF keep = {} THEN 0 ELSE CHOOSE i \in keep : \A k \in keep : k <= i
         IN  SubSeq(front, 1, at) \o <<n>> \o SubSeq(front, at + 1, Len(front))

\* items.sort(key=..., reverse=True), keys[i] being the key of items[i]
SortDescending(items, keys) ==
    LET order == SortOrder(keys)
    IN  List([i \in 1..Len(items) |-> items[order[i]]])

\* candidates[:k]
Take(items, k) == SubSeq(items, 1, Min2(k, Len(items)))

TopKeyCandidates == 10

\* KeyPairRecorded without the test that skips a candidate column with a
\* repeated value
KeyPairRecorded_keeps_repeated(ref_t, cand_t, ref_profiles, ref_col, cand_col) ==
    LET Recorded(ref_vals, cand_vals) ==
            /\ ref_profiles[ref_col].is_unique_non_empty
            /\ Cardinality(SeqToSet(ref_vals)) = Len(ref_vals)
            /\ Cardinality(SeqToSet(ref_vals) \cap SeqToSet(cand_vals)) # 0
    IN  Recorded(Canon(NonEmpty(ColumnValues(ref_t, ref_col))),
                 Canon(NonEmpty(ColumnValues(cand_t, cand_col))))

\* KeyPairRecorded without the test that skips an empty intersection
KeyPairRecorded_keeps_disjoint(ref_t, cand_t, ref_profiles, ref_col, cand_col) ==
    LET Recorded(ref_vals, cand_vals) ==
            /\ ref_profiles[ref_col].is_unique_non_empty
            /\ Cardinality(SeqToSet(ref_vals)) = Len(ref_vals)
            /\ Cardinality(SeqToSet(cand_vals)) = Len(cand_vals)
    IN  Recorded(Canon(NonEmpty(ColumnValues(ref_t, ref_col))),
                 Canon(NonEmpty(ColumnValues(cand_t, cand_col))))

\* whether the inner loop of find_key_match records (ref_col, cand_col)
KeyPairRecorded(ref_t, cand_t, ref_profiles, ref_col, cand_col) ==
    LET Recorded(ref_vals, cand_vals) ==
            /\ ref_profiles[ref_col].is_unique_non_empty
            /\ Cardinality(SeqToSet(ref_vals)) = Len(ref_vals)
            /\ Cardinality(SeqToSet(cand_vals)) = Len(cand_vals)
            /\ Cardinality(SeqToSet(ref_vals) \cap SeqToSet(cand_vals)) # 0
    IN  Recorded(Canon(NonEmpty(ColumnValues(ref_t, ref_col))),
                 Canon(NonEmpty(ColumnValues(cand_t, cand_col))))

\* key_score made of the header similarity alone
key_score_header_only(complete, cand_coverage, ref_coverage, header_score) ==
    header_score

\* key_score without the term for a complete match
key_score_without_complete_term(complete, cand_coverage, ref_coverage, header_score) ==
    RAdd(RAdd(RMul(cand_coverage, RInt(2)), ref_coverage), header_score)

\* (1.0 if complete else 0.0) * 10.0 + (cand_coverage * 2.0) + ref_coverage
\* + header_score
key_score(complete, cand_coverage, ref_coverage, header_score) ==
    RAdd(RAdd(RAdd(RMul(IF complete THEN One ELSE Zero, RInt(10)),
                   RMul(cand_coverage, RInt(2))),
              ref_coverage),
         header_score)

\* the record find_key_match appends for (ref_col, cand_col)
KeyCandidate(ref_t, cand_t, ref_col, cand_col) ==
    LET Scored(ref_vals, cand_vals, intersection, complete,
               cand_coverage, ref_coverage, header_score) ==
            [ reference_column |-> ref_col,
              candidate_column |-> cand_col,
              complete_set_match |-> complete,
              intersection_count |-> intersection,
              candidate_key_coverage |-> Round6(cand_coverage),
              reference_key_coverage |-> Round6(ref_coverage),
              header_similarity |-> Round6(header_score),
              reference_non_empty_count |-> Len(ref_vals),
              candidate_non_empty_count |-> Len(cand_vals),
              score |-> key_score(complete, cand_coverage, ref_coverage, header_score) ]
        Covered(ref_vals, cand_vals, ref_set, cand_set, intersection) ==
            Scored(ref_vals, cand_vals, intersection,
                   /\ Len(ref_t.rows) = Len(cand_t.rows)
                   /\ Len(cand_vals) = Len(ref_vals)
                   /\ cand_set = ref_set,
                   IF cand_set # {} THEN Rat(intersection, Cardinality(cand_set)) ELSE Zero,
                   IF ref_set # {} THEN Rat(intersection, Cardinality(ref_set)) ELSE Zero,
                   HeaderSimilarityOf(ref_col, cand_col))
        Sets(ref_vals, cand_vals, ref_set, cand_set) ==
            Covered(ref_vals, cand_vals, ref_set, cand_set,
                    Cardinality(ref_set \cap cand_set))
        Values(ref_vals, cand_vals) ==
            Sets(ref_vals, cand_vals, SeqToSet(ref_vals), SeqToSet(cand_vals))
    IN  Values(Canon(NonEmpty(ColumnValues(ref_t, ref_col))),
               Canon(NonEmpty(ColumnValues(cand_t, cand_col))))

\* the candidates list of find_key_match before it is sorted
KeyCandidates(ref_t, cand_t, ref_profiles) ==
    LET pairs == HeaderPairs(ref_t, cand_t)
        kept == SelectSeq(pairs, LAMBDA p :
                    KeyPairRecorded(ref_t, cand_t, ref_profiles, p[1], p[2]))
    IN  List([k \in 1..Len(kept) |-> KeyCandidate(ref_t, cand_t, kept[k][1], kept[k][2])])

find_key_match(ref_t, cand_t, ref_profiles, cand_profiles) ==
    LET Best(candidates, best) ==
            [ found_usable_match |-> best.intersection_count > 0,
              found_complete_match |-> best.complete_set_match,
              match_mode |-> IF best.complete_set_match THEN "complete" ELSE "partial",
              reference_column |-> best.reference_column,
              candidate_column |-> best.candidate_column,
              reason |-> IF best.complete_set_match
                         THEN "exact_unique_key_set_match"
                         ELSE "partial_unique_key_overlap_match",
              candidates |-> Take(candidates, TopKeyCandidates) ]
        Sorted(candidates) ==
            IF candidates = <<>>
            THEN [ found_usable_match |-> FALSE,
                   found_complete_match |-> FALSE,
                   reference_column |-> None,
                   candidate_column |-> None,
                   reason |-> "no_exact_or_partial_unique_key_match",
                   candidates |-> <<>> ]
            ELSE Best(candidates, candidates[1])
        Unsorted(unsorted) ==
            Sorted(SortDescending(unsorted,
                       List([k \in 1..Len(unsorted) |->
                           <<unsorted[k].score,
                             RInt(unsorted[k].reference_non_empty_count)>>])))
    IN  Unsorted(KeyCandidates(ref_t, cand_t, ref_profiles))

-----------------------------------------------------------------------------
(* src/comparison/csv_compare.py: row alignment. *)

\* RefIndexLoop indexing the last row of a repeated key instead of the first
RECURSIVE RefIndexLoop_last_occurrence(_, _, _, _)
RefIndexLoop_last_occurrence(ref_t, ref_k, idx, st) ==
    IF idx > Len(ref_t.rows) THEN st
    ELSE LET key == CanonicalScalarOf(Get(ref_t, ref_t.rows[idx], ref_k))
         IN  IF key = <<>> THEN RefIndexLoop_last_occurrence(ref_t, ref_k, idx + 1, st)
             ELSE IF key \in DOMAIN st.ref_index
                  THEN RefIndexLoop_last_occurrence(ref_t, ref_k, idx + 1,
                           [st EXCEPT !.duplicate_ref_keys = @ + 1,
                                      !.ref_index = (key :> idx) @@ @])
                  ELSE RefIndexLoop_last_occurrence(ref_t, ref_k, idx + 1,
                           [st EXCEPT !.ref_index = @ @@ (key :> idx)])

\* the first loop of align_rows_by_key over ref.rows[idx..]: the key index
\* (canonical key -> row index) and the duplicate counter
RECURSIVE RefIndexLoop(_, _, _, _)
RefIndexLoop(ref_t, ref_k, idx, st) ==
    IF idx > Len(ref_t.rows) THEN st
    ELSE LET key == CanonicalScalarOf(Get(ref_t, ref_t.rows[idx], ref_k))
         IN  IF key = <<>> THEN RefIndexLoop(ref_t, ref_k, idx + 1, st)
             ELSE IF key \in DOMAIN st.ref_index
                  THEN RefIndexLoop(ref_t, ref_k, idx + 1,
                           [st EXCEPT !.duplicate_ref_keys = @ + 1])
                  ELSE RefIndexLoop(ref_t, ref_k, idx + 1,
                           [st EXCEPT !.ref_index = @ @@ (key :> idx)])

\* CandRowStep without the test for a reference row that is already paired
CandRowStep_pairs_again(cand_t, cand_k, ref_index, cand_idx, st) ==
    LET key == CanonicalScalarOf(Get(cand_t, cand_t.rows[cand_idx], cand_k))
    IN  IF key = <<>>
        THEN [st EXCEPT !.missing_candidate_keys = @ + 1]
        ELSE IF key \notin DOMAIN ref_index
        THEN [st EXCEPT !.missing_candidate_keys = @ + 1]
        ELSE [st EXCEPT !.seen_ref_indices = @ \cup {ref_index[key]},
                        !.pairs = Append(@, <<ref_index[key], cand_idx>>)]

\* CandRowStep passing over a candidate row with an empty key without
\* counting it
CandRowStep_skips_empty_key(cand_t, cand_k, ref_index, cand_idx, st) ==
    LET key == CanonicalScalarOf(Get(cand_t, cand_t.rows[cand_idx], cand_k))
    IN  IF key = <<>>
        THEN st
        ELSE IF key \notin DOMAIN ref_index
        THEN [st EXCEPT !.missing_candidate_keys = @ + 1]
        ELSE IF ref_index[key] \in st.seen_ref_indices
        THEN [st EXCEPT !.duplicate_candidate_matches = @ + 1]
        ELSE [st EXCEPT !.seen_ref_indices = @ \cup {ref_index[key]},
                        !.pairs = Append(@, <<ref_index[key], cand_idx>>)]

\* one step of the second loop of align_rows_by_key, for candidate row cand_idx
CandRowStep(cand_t, cand_k, ref_index, cand_idx, st) ==
    LET key == CanonicalScalarOf(Get(cand_t, cand_t.rows[cand_idx], cand_k))
    IN  IF key = <<>>
        THEN [st EXCEPT !.missing_candidate_keys = @ + 1]
        ELSE IF key \notin DOMAIN ref_index
        THEN [st EXCEPT !.missing_candidate_keys = @ + 1]
        ELSE IF ref_index[key] \in st.seen_ref_indices
        THEN [st EXCEPT !.duplicate_candidate_matches = @ + 1]
        ELSE [st EXCEPT !.seen_ref_indices = @ \cup {ref_index[key]},
                        !.pairs = Append(@, <<ref_index[key], cand_idx>>)]

RECURSIVE CandLoop(_, _, _, _, _)
CandLoop(cand_t, cand_k, ref_index, cand_idx, st) ==
    IF cand_idx > Len(cand_t.rows) THEN st
    ELSE CandLoop(cand_t, cand_k, ref_index, cand_idx + 1,
                  CandRowStep(cand_t, cand_k, ref_index, cand_idx, st))

\* SortPairs leaving the pairs in candidate row order
SortPairs_unsorted(pairs) == pairs

\* pairs.sort(key=lambda p: p[0]): ascending, equal keys keep their order
RECURSIVE SortPairs(_)
SortPairs(pairs) ==
    IF pairs = <<>> THEN <<>>
    ELSE LET n == Len(pairs)
             last == pairs[n]
             front == SortPairs(SubSeq(pairs, 1, n - 1))
             keep == {i \in 1..Len(front) : front[i][1] <= last[1]}
             at == IF keep = {} THEN 0 ELSE CHOOSE i \in keep : \A k \in keep : k <= i
         IN  SubSeq(front, 1, at) \o <<last>> \o SubSeq(front, at + 1, Len(front))

\* AlignmentComplete from the three counters alone
AlignmentComplete_counters_only(dup_ref, dup_cand, missing, matched, ref_rows, cand_rows) ==
    /\ dup_ref = 0
    /\ dup_cand = 0
    /\ missing = 0

\* the complete flag of align_rows_by_key
AlignmentComplete(dup_ref, dup_cand, missing, matched, ref_rows, cand_rows) ==
    /\ dup_ref = 0
    /\ dup_cand = 0
    /\ missing = 0
    /\ matched = ref_rows
    /\ ref_rows = cand_rows

align_rows_by_key(ref_t, cand_t, ref_k, cand_k) ==
    LET Result(first, second, pairs, matched) ==
            [ complete |-> AlignmentComplete(first.duplicate_ref_keys,
                               second.duplicate_candidate_matches,
                               second.missing_candidate_keys,
                               matched, Len(ref_t.rows), Len(cand_t.rows)),
              reference_key |-> ref_k,
              candidate_key |-> cand_k,
              matched_rows |-> matched,
              reference_rows |-> Len(ref_t.rows),
              candidate_rows |-> Len(cand_t.rows),
              coverage_reference |->
                  IF ref_t.rows # <<>> THEN Rat(matched, Len(ref_t.rows)) ELSE Zero,
              coverage_candidate |->
                  IF cand_t.rows # <<>> THEN Rat(matched, Len(cand_t.rows)) ELSE Zero,
              duplicate_reference_keys |-> first.duplicate_ref_keys,
              duplicate_candidate_matches |-> second.duplicate_candidate_matches,
              missing_candidate_keys_or_unmatched |-> second.missing_candidate_keys,
              pairs |-> pairs ]
        Sorted(first, second, pairs) == Result(first, second, pairs, Len(pairs))
        Second(first, second) == Sorted(first, second, SortPairs(second.pairs))
        First(first) ==
            Second(first,
                   CandLoop(cand_t, cand_k, first.ref_index, 1,
                       [pairs |-> <<>>, seen_ref_indices |-> {},
                        missing_candidate_keys |-> 0,
                        duplicate_candidate_matches |-> 0]))
    IN  First(RefIndexLoop(ref_t, ref_k, 1,
                  [ref_index |-> <<>>, duplicate_ref_keys |-> 0]))

\* {k: v for k, v in alignment.items() if k != "pairs"}
AlignmentSummary(a) == [k \in (DOMAIN a) \ {"pairs"} |-> a[k]] @@ <<>>

-----------------------------------------------------------------------------
(* src/comparison/csv_compare.py: column mapping. *)

\* sum of a sequence of rationals
RECURSIVE RSum(_)
RSum(vs) == IF vs = <<>> THEN Zero ELSE RAdd(Head(vs), RSum(Tail(vs)))

sample_column_similarity_fast(ref_t, cand_t, sample_pairs, ref_col, cand_col) ==
    LET rv(p) == Get(ref_t, ref_t.rows[p[1]], ref_col)
        cv(p) == Get(cand_t, cand_t.rows[p[2]], cand_col)
        Exact(r_empty, c_empty, r, c) ==
            (r_empty /\ c_empty) \/ CanonicalScalarOf(r) = CanonicalScalarOf(c)
        SamePresence(r_empty, c_empty) ==
            (r_empty /\ c_empty) \/ r_empty = c_empty
        exact == Count(List([k \in 1..Len(sample_pairs) |->
                     Exact(IsEmptyOf(rv(sample_pairs[k])), IsEmptyOf(cv(sample_pairs[k])),
                           rv(sample_pairs[k]), cv(sample_pairs[k]))]))
        same_presence == Count(List([k \in 1..Len(sample_pairs) |->
                     SamePresence(IsEmptyOf(rv(sample_pairs[k])),
                                  IsEmptyOf(cv(sample_pairs[k])))]))
        n == Len(sample_pairs)
    IN  IF sample_pairs = <<>> THEN Zero
        ELSE RAdd(RMul(Rat(85, 100), Rat(exact, n)),
                  RMul(Rat(15, 100), Rat(same_presence, n)))

\* the record map_columns appends for (ref_col, cand_col)
PairScore(ref_t, cand_t, ref_profiles, cand_profiles, sample_pairs, ref_col, cand_col) ==
    LET combined(h_score, t_score, s_score) ==
            RAdd(RAdd(RMul(Rat(35, 100), h_score),
                      RMul(Rat(10, 100), t_score)),
                 RMul(Rat(55, 100), s_score))
        Scored(h_score, t_score, s_score) ==
            [ reference_column |-> ref_col,
              candidate_column |-> cand_col,
              header_similarity |-> Round6(h_score),
              type_compatibility |-> Round6(t_score),
              sample_similarity |-> Round6(s_score),
              mapping_confidence |-> Round6(combined(h_score, t_score, s_score)) ]
    IN  Scored(HeaderSimilarityOf(ref_col, cand_col),
               type_compatibility_score(ref_profiles[ref_col], cand_profiles[cand_col]),
               sample_column_similarity_fast(ref_t, cand_t, sample_pairs,
                                             ref_col, cand_col))

\* Admitted letting every pair through
Admitted_every_pair(p) == TRUE

\* the admission rule of the greedy loop
Admitted(p) ==
    ~(RLess(p.mapping_confidence, Rat(55, 100)) /\ RLess(p.sample_similarity, Rat(85, 100)))

\* GreedyLoop leaving the loop at the first pair with a taken column
RECURSIVE GreedyLoop_stops_at_taken(_, _, _)
GreedyLoop_stops_at_taken(pair_scores, i, st) ==
    IF i > Len(pair_scores) THEN st
    ELSE LET p == pair_scores[i]
             r == p.reference_column
             c == p.candidate_column
         IN  IF r \in st.used_ref \/ c \in st.used_cand
             THEN st
             ELSE IF ~Admitted(p)
             THEN GreedyLoop_stops_at_taken(pair_scores, i + 1, st)
             ELSE GreedyLoop_stops_at_taken(pair_scores, i + 1,
                      [ used_ref |-> st.used_ref \cup {r},
                        used_cand |-> st.used_cand \cup {c},
                        mapping |-> (r :> p) @@ st.mapping,
                        mapping_confidences |->
                            Append(st.mapping_confidences, p.mapping_confidence) ])

\* GreedyLoop without the test for a candidate column that is already taken
RECURSIVE GreedyLoop_reuses_candidate(_, _, _)
GreedyLoop_reuses_candidate(pair_scores, i, st) ==
    IF i > Len(pair_scores) THEN st
    ELSE LET p == pair_scores[i]
             r == p.reference_column
             c == p.candidate_column
         IN  IF r \in st.used_ref
             THEN GreedyLoop_reuses_candidate(pair_scores, i + 1, st)
             ELSE IF ~Admitted(p)
             THEN GreedyLoop_reuses_candidate(pair_scores, i + 1, st)
             ELSE GreedyLoop_reuses_candidate(pair_scores, i + 1,
                      [ used_ref |-> st.used_ref \cup {r},
                        used_cand |-> st.used_cand \cup {c},
                        mapping |-> (r :> p) @@ st.mapping,
                        mapping_confidences |->
                            Append(st.mapping_confidences, p.mapping_confidence) ])

\* the greedy loop of map_columns over pair_scores[i..]
RECURSIVE GreedyLoop(_, _, _)
GreedyLoop(pair_scores, i, st) ==
    IF i > Len(pair_scores) THEN st
    ELSE LET p == pair_scores[i]
             r == p.reference_column
             c == p.candidate_column
         IN  IF r \in st.used_ref \/ c \in st.used_cand
             THEN GreedyLoop(pair_scores, i + 1, st)
             ELSE IF ~Admitted(p)
             THEN GreedyLoop(pair_scores, i + 1, st)
             ELSE GreedyLoop(pair_scores, i + 1,
                      [ used_ref |-> st.used_ref \cup {r},
                        used_cand |-> st.used_cand \cup {c},
                        mapping |-> (r :> p) @@ st.mapping,
                        mapping_confidences |->
                            Append(st.mapping_confidences, p.mapping_confidence) ])

TopPairCandidates == 50

map_columns(ref_t, cand_t, ref_profiles, cand_profiles, alignment_pairs, size) ==
    LET Result(pair_scores, g) ==
            [ mapping |-> g.mapping,
              reference_unmatched |->
                  SelectSeq(ref_t.headers, LAMBDA h : h \notin g.used_ref),
              candidate_unmatched |->
                  SelectSeq(cand_t.headers, LAMBDA h : h \notin g.used_cand),
              mapping_confidence_avg |->
                  IF g.mapping_confidences # <<>>
                  THEN RDiv(RSum(g.mapping_confidences), RInt(Len(g.mapping_confidences)))
                  ELSE Zero,
              pair_candidates_top |-> Take(pair_scores, TopPairCandidates) ]
        Sorted(pair_scores) ==
            Result(pair_scores,
                   GreedyLoop(pair_scores, 1,
                       [used_ref |-> {}, used_cand |-> {}, mapping |-> <<>>,
                        mapping_confidences |-> <<>>]))
        Unsorted(unsorted) ==
            Sorted(SortDescending(unsorted,
                       List([k \in 1..Len(unsorted) |->
                           <<unsorted[k].mapping_confidence,
                             unsorted[k].sample_similarity,
                             unsorted[k].header_similarity>>])))
        Scores(sample_pairs, hp) ==
            Unsorted(List([k \in 1..Len(hp) |->
                         PairScore(ref_t, cand_t, ref_profiles, cand_profiles,
                                   sample_pairs, hp[k][1], hp[k][2])]))
    IN  Scores(SubSeq(alignment_pairs, 1, Min2(size, Len(alignment_pairs))),
               HeaderPairs(ref_t, cand_t))

-----------------------------------------------------------------------------
(* src/comparison/csv_compare.py: scoring and the report. *)

full_column_similarity(ref_t, cand_t, alignment_pairs, ref_col, cand_col) ==
    IF alignment_pairs = <<>> THEN Zero
    ELSE RDiv(RSum(List([i \in 1..Len(alignment_pairs) |->
                       ValueSimilarityOf(
                           Get(ref_t, ref_t.rows[alignment_pairs[i][1]], ref_col),
                           Get(cand_t, cand_t.rows[alignment_pairs[i][2]], cand_col))])),
              RInt(Len(alignment_pairs)))

\* the per_ref entry score_columns appends for ref_col
PerReferenceColumn(ref_t, cand_t, alignment_pairs, mapping, ref_col) ==
    IF ref_col \notin DOMAIN mapping
    THEN [ reference_column |-> ref_col,
           candidate_column |-> None,
           similarity |-> Zero,
           matched |-> FALSE,
           mapping_confidence |-> Zero,
           row_count_scored |-> 0 ]
    ELSE LET m == mapping[ref_col]
         IN  [ reference_column |-> ref_col,
               candidate_column |-> m.candidate_column,
               similarity |-> full_column_similarity(ref_t, cand_t, alignment_pairs,
                                                     ref_col, m.candidate_column),
               matched |-> TRUE,
               mapping_confidence |-> m.mapping_confidence,
               row_count_scored |-> Len(alignment_pairs),
               header_similarity |-> m.header_similarity,
               sample_similarity |-> m.sample_similarity ]

\* the total score_columns accumulates over the mapped columns
TotalScore(matched) == RSum(List([i \in 1..Len(matched) |-> matched[i].similarity]))

\* DatasetScore averaging over the mapped columns only
DatasetScore_over_mapped(matched, n_headers) ==
    IF matched # <<>> THEN RDiv(TotalScore(matched), RInt(Len(matched))) ELSE Zero

\* (total / len(ref.headers)) if ref.headers else 0.0
DatasetScore(matched, n_headers) ==
    IF n_headers # 0 THEN RDiv(TotalScore(matched), RInt(n_headers)) ELSE Zero

score_columns(ref_t, cand_t, alignment_pairs, mapping) ==
    LET Result(per_ref, matched) ==
            [ dataset_similarity_equal_weighted |->
                  DatasetScore(matched, Len(ref_t.headers)),
              mapped_reference_columns |-> Len(matched),
              reference_columns_total |-> Len(ref_t.headers),
              per_reference_column |-> per_ref ]
        PerRef(per_ref) == Result(per_ref, SelectSeq(per_ref, LAMBDA e : e.matched))
    IN  PerRef(List([i \in 1..Len(ref_t.headers) |->
                   PerReferenceColumn(ref_t, cand_t, alignment_pairs, mapping,
                                      ref_t.headers[i])]))

\* the alignment zero_result reports when it is given none
NoAlignment(ref_t, cand_t) ==
    [ complete |-> FALSE,
      matched_rows |-> 0,
      reference_rows |-> Len(ref_t.rows),
      candidate_rows |-> Len(cand_t.rows),
      coverage_reference |-> Zero,
      coverage_candidate |-> Zero ]

\* zero_result; the config and profile sections of the report are left out
zero_result(ref_t, cand_t, km, alignment_override) ==
    [ status |-> "no_complete_key_match",
      row_alignment |-> AlignmentSummary(alignment_override),
      key_match |-> km,
      column_mapping |->
          [ mapping |-> <<>>,
            candidate_unmatched |-> cand_t.headers,
            reference_unmatched |-> ref_t.headers,
            mapping_confidence_avg |-> Zero,
            pair_candidates_top |-> <<>> ],
      scores |->
          [ dataset_similarity_equal_weighted |-> Zero,
            overall_score_with_coverage |-> Zero,
            mapped_reference_columns |-> 0,
            reference_columns_total |-> Len(ref_t.headers),
            per_reference_column |->
                List([i \in 1..Len(ref_t.headers) |->
                    [ reference_column |-> ref_t.headers[i],
                      candidate_column |-> None,
                      similarity |-> Zero,
                      matched |-> FALSE,
                      reason |-> "no_complete_key_match" ]]) ] ]

\* StatusOf deciding by the reference coverage instead of the complete flag
StatusOf_by_reference_coverage(a) ==
    IF a.coverage_reference = One THEN "ok" ELSE "partial_key_match"

\* the status of the report compare_csv_files returns after scoring
StatusOf(a) == IF a.complete THEN "ok" ELSE "partial_key_match"

\* the report compare_csv_files returns after scoring
ok_result(km, a, cm, sc) ==
    [ status |-> StatusOf(a),
      row_alignment |-> AlignmentSummary(a),
      key_match |-> km,
      column_mapping |-> cm,
      scores |-> sc ]

-----------------------------------------------------------------------------
(* The tables the engine is run on. *)

RefHeaders == <<H_id, H_name>>

\* the candidate keeps the reference's header, or renames and reorders it
CandHeaderChoices == {<<H_id, H_name>>, <<H_title, H_id_code>>}

RowsOver(headers) ==
    {r \in [1..Len(headers) -> UNION {CellsOf(headers[i]) : i \in 1..Len(headers)}] :
        \A i \in 1..Len(headers) : r[i] \in CellsOf(headers[i])}

TablesOver(headers) ==
    {[headers |-> headers, rows |-> rs] :
        rs \in UNION {[1..n -> RowsOver(headers)] : n \in 0..MaxRows}}

\* compare_csv_files(..., sample_size_mapping=256)
DefaultSampleSize == 256

InitTables ==
    /\ ref \in TablesOver(RefHeaders)
    /\ cand \in UNION {TablesOver(hs) : hs \in CandHeaderChoices}
    /\ x = None
    /\ y = None
    /\ canon1 = <<>>
    /\ canon2 = <<>>
    /\ sim = <<>>
    /\ sim_swapped = <<>>
    /\ lev = <<>>
    /\ ref_column_profile = <<>>
    /\ cand_column_profile = <<>>
    /\ type_score = <<>>
    /\ type_score_swapped = <<>>
    /\ ref_key = None
    /\ cand_key = None
    /\ key_match = <<>>
    /\ alignment = <<>>
    /\ column_mapping = <<>>
    /\ scoring = <<>>
    /\ report = <<>>
    /\ cand_shuffled = <<>>
    /\ report_shuffled = <<>>

-----------------------------------------------------------------------------
(* compare_csv_files, one action per stage. *)

Init ==
    /\ pc = "start"
    /\ sample_size \in {1, DefaultSampleSize}
    /\ InitTables

\* profile_columns on both tables and find_key_match; without a usable key
\* the call returns zero_result
FindKeyMatch ==
    /\ pc = "start"
    /\ \E km \in {find_key_match(ref, cand, profile_columns(ref), profile_columns(cand))} :
           /\ key_match' = km
           /\ IF ~km.found_usable_match
              THEN /\ report' = zero_result(ref, cand, km, NoAlignment(ref, cand))
                   /\ pc' = "done"
              ELSE /\ report' = report
                   /\ pc' = "align"
    /\ UNCHANGED <<ref, cand, sample_size, ref_key, cand_key, alignment,
                   column_mapping, scoring>>
    /\ UNCHANGED cellVars
    /\ UNCHANGED typeVars
    /\ UNCHANGED shuffleVars

\* align_rows_by_key on the chosen key pair; with no matched row the call
\* returns zero_result with the failed alignment
AlignRowsByKey ==
    /\ pc = "align"
    /\ \E a \in {align_rows_by_key(ref, cand, key_match.reference_column,
                                      key_match.candidate_column)} :
           /\ alignment' = a
           /\ ref_key' = key_match.reference_column
           /\ cand_key' = key_match.candidate_column
           /\ IF a.matched_rows = 0
              THEN /\ report' = zero_result(ref, cand, key_match, a)
                   /\ pc' = "done"
              ELSE /\ report' = report
                   /\ pc' = "map"
    /\ UNCHANGED <<ref, cand, sample_size, key_match, column_mapping, scoring>>
    /\ UNCHANGED cellVars
    /\ UNCHANGED typeVars
    /\ UNCHANGED shuffleVars

\* map_columns on the aligned pairs
MapColumns ==
    /\ pc = "map"
    /\ column_mapping' = map_columns(ref, cand, profile_columns(ref),
                                     profile_columns(cand), alignment.pairs, sample_size)
    /\ pc' = "score"
    /\ UNCHANGED <<ref, cand, sample_size, ref_key, cand_key, key_match,
                   alignment, scoring, report>>
    /\ UNCHANGED cellVars
    /\ UNCHANGED typeVars
    /\ UNCHANGED shuffleVars

\* score_columns, the coverage-weighted score and the returned report
ScoreColumns ==
    /\ pc = "score"
    /\ \E sc \in {score_columns(ref, cand, alignment.pairs, column_mapping.mapping)} :
       \E full \in {sc @@ [overall_score_with_coverage |->
                               RMul(sc.dataset_similarity_equal_weighted,
                                    alignment.coverage_reference)]} :
           /\ scoring' = full
           /\ report' = ok_result(key_match, alignment, column_mapping, full)
    /\ pc' = "done"
    /\ UNCHANGED <<ref, cand, sample_size, ref_key, cand_key, key_match,
                   alignment, column_mapping>>
    /\ UNCHANGED cellVars
    /\ UNCHANGED typeVars
    /\ UNCHANGED shuffleVars

Next ==
    \/ FindKeyMatch
    \/ AlignRowsByKey
    \/ MapColumns
    \/ ScoreColumns

Spec == Init /\ [][Next]_vars

-----------------------------------------------------------------------------
(* align_rows_by_key called on any two tables with any key pair. *)

InitAlign ==
    /\ pc = "align_call"
    /\ sample_size = DefaultSampleSize
    /\ InitTables

AlignCall ==
    /\ pc = "align_call"
    /\ \E rk \in SeqToSet(ref.headers), ck \in SeqToSet(cand.headers) :
          /\ ref_key' = rk
          /\ cand_key' = ck
          /\ alignment' = align_rows_by_key(ref, cand, rk, ck)
    /\ pc' = "aligned"
    /\ UNCHANGED <<ref, cand, sample_size, key_match, column_mapping, scoring, report>>
    /\ UNCHANGED cellVars
    /\ UNCHANGED typeVars
    /\ UNCHANGED shuffleVars

NextAlign == AlignCall

SpecAlign == InitAlign /\ [][NextAlign]_vars

-----------------------------------------------------------------------------
(* compare_csv_files on a candidate and on the same candidate with its     *)
(* rows and columns permuted.                                               *)

\* compare_csv_files as one call: the report it returns; each local of the
\* function is bound once, as the one member of a set
compare_csv_files(ref_t, cand_t, size) ==
    LET Scored(km, a, cm, sc) ==
            ok_result(km, a, cm,
                sc @@ [overall_score_with_coverage |->
                          RMul(sc.dataset_similarity_equal_weighted,
                               a.coverage_reference)])
        Mapped(km, a, cm) ==
            CHOOSE result \in
                {Scored(km, a, cm, sc) :
                    sc \in {score_columns(ref_t, cand_t, a.pairs, cm.mapping)}} : TRUE
        Aligned(km, a) ==
            IF a.matched_rows = 0 THEN zero_result(ref_t, cand_t, km, a)
            ELSE CHOOSE result \in
                     {Mapped(km, a, cm) :
                         cm \in {map_columns(ref_t, cand_t, profile_columns(ref_t),
                                             profile_columns(cand_t), a.pairs, size)}} : TRUE
        Keyed(km) ==
            IF ~km.found_usable_match
            THEN zero_result(ref_t, cand_t, km, NoAlignment(ref_t, cand_t))
            ELSE CHOOSE result \in
                     {Aligned(km, a) :
                         a \in {align_rows_by_key(ref_t, cand_t, km.reference_column,
                                                  km.candidate_column)}} : TRUE
    IN  CHOOSE result \in
            {Keyed(km) :
                km \in {find_key_match(ref_t, cand_t, profile_columns(ref_t),
                                       profile_columns(cand_t))}} : TRUE

\* the permutations of 1..n, as functions
OrdersOf(n) ==
    {f \in [1..n -> 1..n] : \A i, j \in 1..n : f[i] = f[j] => i = j}

\* the table with row f[i] in place i
ShuffleRows(table, f) ==
    [ headers |-> table.headers,
      rows |-> [i \in 1..Len(table.rows) |-> table.rows[f[i]]] ]

\* the table with column g[k] in place k, every cell staying under its header
ShuffleColumns(table, g) ==
    [ headers |-> [k \in 1..Len(table.headers) |-> table.headers[g[k]]],
      rows |-> [i \in 1..Len(table.rows) |->
                  [k \in 1..Len(table.headers) |-> table.rows[i][g[k]]]] ]

\* the candidate carries the key column and a second column of the same
\* header similarity to it
ShuffleCandHeaders == <<H_id, H_id_code>>

\* the tables over the headers whose id cells are all filled
KeyedTablesOver(headers) ==
    {t \in TablesOver(headers) :
        \A i \in 1..Len(t.rows) : Get(t, t.rows[i], H_id) # <<>>}

InitShuffle ==
    /\ pc = "compare"
    /\ sample_size \in {1, DefaultSampleSize}
    /\ ref \in KeyedTablesOver(RefHeaders)
    /\ cand \in KeyedTablesOver(ShuffleCandHeaders)
    /\ x = None
    /\ y = None
    /\ canon1 = <<>>
    /\ canon2 = <<>>
    /\ sim = <<>>
    /\ sim_swapped = <<>>
    /\ lev = <<>>
    /\ ref_column_profile = <<>>
    /\ cand_column_profile = <<>>
    /\ type_score = <<>>
    /\ type_score_swapped = <<>>
    /\ ref_key = None
    /\ cand_key = None
    /\ key_match = <<>>
    /\ alignment = <<>>
    /\ column_mapping = <<>>
    /\ scoring = <<>>
    /\ report = <<>>
    /\ cand_shuffled = <<>>
    /\ report_shuffled = <<>>

\* compare_csv_files(ref, cand), and after the shuffle
\* compare_csv_files(ref, cand_shuffled)
Compare ==
    /\ pc \in {"compare", "shuffle"}
    /\ \E t \in {IF pc = "compare" THEN cand ELSE cand_shuffled} :
       \E result \in {compare_csv_files(ref, t, sample_size)} :
          IF pc = "compare"
          THEN /\ report' = result
               /\ pc' = "compared"
               /\ UNCHANGED report_shuffled
          ELSE /\ report_shuffled' = result
               /\ pc' = "shuffled"
               /\ UNCHANGED report
    /\ UNCHANGED <<ref, cand, sample_size, ref_key, cand_key, key_match,
                   alignment, column_mapping, scoring, cand_shuffled>>
    /\ UNCHANGED cellVars
    /\ UNCHANGED typeVars

\* the candidate of the second call: the rows are permuted by f, the
\* columns by g
Shuffle ==
    /\ pc = "compared"
    /\ \E f \in OrdersOf(Len(cand.rows)), g \in OrdersOf(Len(cand.headers)) :
          cand_shuffled' = ShuffleColumns(ShuffleRows(cand, f), g)
    /\ pc' = "shuffle"
    /\ UNCHANGED <<ref, cand, sample_size, ref_key, cand_key, key_match,
                   alignment, column_mapping, scoring, report, report_shuffled>>
    /\ UNCHANGED cellVars
    /\ UNCHANGED typeVars

NextShuffle ==
    \/ Compare
    \/ Shuffle

SpecShuffle == InitShuffle /\ [][NextShuffle]_vars

-----------------------------------------------------------------------------
(* Kernel calls on single cells: canonical_scalar and value_similarity.     *)

CellAlphabet == {" ", "0", "1", "2", ".", "-", "y", "a"}

StringsUpTo(n) == UNION {[1..k -> CellAlphabet] : k \in 0..n}

SampleCells ==
    { <<"t", "r", "u", "e">>, <<"T", "R", "U", "E">>, <<"F", "a", "l", "s", "e">>,
      <<"y", "e", "s">>, <<"N", "o">>, <<"N">>, <<"+", "1">>, <<"+", "0">>,
      <<"1", ".", "0", "0">>, <<"-", "0", ".", "0">>, <<"\t", "7", " ">>,
      <<"2", ".", "5", "0">>, <<"1", "0", "0">>, <<"0", ".", "0", "5">>,
      <<"1", ".", "9", "9">>, <<"2", ".", "0", "0">>,
      <<"a", "b", "c">>, <<"k", "i", "t", "t", "e", "n">>,
      <<"s", "i", "t", "t", "i", "n", "g">>, <<"1", ".", "2", ".", "3">> }

\* the raw cells a kernel is called on
RawCells == StringsUpTo(MaxLen) \cup SampleCells \cup {None}

\* the second argument of a two-cell kernel
PairCells ==
    SampleCells \cup {None, <<>>, <<" ">>, <<"1">>, <<"0">>, <<"2">>, <<"a">>, <<"y">>,
                      <<"2", ".", "0">>, <<"-", "2">>, <<"a", "y">>}

Unset == <<>>

InitCell ==
    /\ pc = "cell"
    /\ x \in RawCells
    /\ y = None
    /\ canon1 = Unset
    /\ canon2 = Unset
    /\ sim = Unset
    /\ sim_swapped = Unset
    /\ lev = Unset
    /\ ref_column_profile = Unset
    /\ cand_column_profile = Unset
    /\ type_score = Unset
    /\ type_score_swapped = Unset
    /\ ref = Unset
    /\ cand = Unset
    /\ sample_size = 0
    /\ ref_key = Unset
    /\ cand_key = Unset
    /\ key_match = Unset
    /\ alignment = Unset
    /\ column_mapping = Unset
    /\ scoring = Unset
    /\ report = Unset
    /\ cand_shuffled = Unset
    /\ report_shuffled = Unset

\* canonical_scalar(x)
CanonicalScalar ==
    /\ pc = "cell"
    /\ canon1' = canonical_scalar(x)
    /\ pc' = "canon"
    /\ UNCHANGED <<x, y, canon2, sim, sim_swapped, lev>>
    /\ UNCHANGED tableVars
    /\ UNCHANGED typeVars

\* canonical_scalar applied to its own result
CanonicalScalarAgain ==
    /\ pc = "canon"
    /\ canon2' = canonical_scalar(canon1)
    /\ pc' = "canon_canon"
    /\ UNCHANGED <<x, y, canon1, sim, sim_swapped, lev>>
    /\ UNCHANGED tableVars
    /\ UNCHANGED typeVars

\* value_similarity(x, b) for a second cell b (x itself included)
ValueSimilarity ==
    /\ pc = "cell"
    /\ \E b \in PairCells \cup {x} :
          /\ y' = b
          /\ sim' = value_similarity(x, b)
    /\ pc' = "sim"
    /\ UNCHANGED <<x, canon1, canon2, sim_swapped, lev>>
    /\ UNCHANGED tableVars
    /\ UNCHANGED typeVars

\* value_similarity(y, x), the same two cells in the other order
ValueSimilaritySwapped ==
    /\ pc = "sim"
    /\ sim_swapped' = value_similarity(y, x)
    /\ pc' = "sim_swapped"
    /\ UNCHANGED <<x, y, canon1, canon2, sim, lev>>
    /\ UNCHANGED tableVars
    /\ UNCHANGED typeVars

\* levenshtein_distance(x, y) on the two cells as strings
LevenshteinDistance ==
    /\ pc = "sim"
    /\ x # None
    /\ y # None
    /\ lev' = levenshtein_distance(x, y)
    /\ pc' = "lev"
    /\ UNCHANGED <<x, y, canon1, canon2, sim, sim_swapped>>
    /\ UNCHANGED tableVars
    /\ UNCHANGED typeVars

NextCell ==
    \/ CanonicalScalar
    \/ CanonicalScalarAgain
    \/ ValueSimilarity
    \/ ValueSimilaritySwapped
    \/ LevenshteinDistance

SpecCell == InitCell /\ [][NextCell]_vars

-----------------------------------------------------------------------------
(* type_compatibility_score called on the profiles of any two columns.     *)

\* hits / len(sample) of a column: none, half, just below 0.9, 0.9, all
SampleRatios == {Rat(0, 1), Rat(1, 2), Rat(89, 100), Rat(9, 10), Rat(1, 1)}

\* the two fields of a column profile type_compatibility_score reads; a cell
\* can be a number, a boolean, both ("1") or neither
ColumnProfiles == [numeric_ratio : SampleRatios, bool_ratio : SampleRatios]

InitTypes ==
    /\ pc = "profiles"
    /\ ref_column_profile \in ColumnProfiles
    /\ cand_column_profile \in ColumnProfiles
    /\ type_score = Unset
    /\ type_score_swapped = Unset
    /\ x = None
    /\ y = None
    /\ canon1 = Unset
    /\ canon2 = Unset
    /\ sim = Unset
    /\ sim_swapped = Unset
    /\ lev = Unset
    /\ ref = Unset
    /\ cand = Unset
    /\ sample_size = 0
    /\ ref_key = Unset
    /\ cand_key = Unset
    /\ key_match = Unset
    /\ alignment = Unset
    /\ column_mapping = Unset
    /\ scoring = Unset
    /\ report = Unset
    /\ cand_shuffled = Unset
    /\ report_shuffled = Unset

\* type_compatibility_score(ref_profiles[r], cand_profiles[c])
TypeCompatibilityScore ==
    /\ pc = "profiles"
    /\ type_score' = type_compatibility_score(ref_column_profile, cand_column_profile)
    /\ pc' = "type"
    /\ UNCHANGED <<ref_column_profile, cand_column_profile, type_score_swapped>>
    /\ UNCHANGED <<x, y, canon1, canon2, sim, sim_swapped, lev>>
    /\ UNCHANGED <<ref, cand, sample_size, ref_key, cand_key, key_match, alignment,
                   column_mapping, scoring, report, cand_shuffled, report_shuffled>>

\* the same two profiles in the other order
TypeCompatibilityScoreSwapped ==
    /\ pc = "type"
    /\ type_score_swapped' = type_compatibility_score(cand_column_profile, ref_column_profile)
    /\ pc' = "type_swapped"
    /\ UNCHANGED <<ref_column_profile, cand_column_profile, type_score>>
    /\ UNCHANGED <<x, y, canon1, canon2, sim, sim_swapped, lev>>
    /\ UNCHANGED <<ref, cand, sample_size, ref_key, cand_key, key_match, alignment,
                   column_mapping, scoring, report, cand_shuffled, report_shuffled>>

NextTypes ==
    \/ TypeCompatibilityScore
    \/ TypeCompatibilityScoreSwapped

SpecTypes == InitTypes /\ [][NextTypes]_vars

-----------------------------------------------------------------------------
(* Every call that computes a score: a kernel call on cells, or            *)
(* compare_csv_files on two tables.                                         *)

InitScores ==
    \/ InitCell
    \/ Init

NextScores ==
    \/ CanonicalScalar
    \/ CanonicalScalarAgain
    \/ ValueSimilarity
    \/ ValueSimilaritySwapped
    \/ Next

SpecScores == InitScores /\ [][NextScores]_vars

-----------------------------------------------------------------------------
(* Claims about the kernels. *)

\* C1 (as stated): canonical_scalar is idempotent, for every raw cell x
\* canonical_scalar(canonical_scalar(x)) = canonical_scalar(x).
C1_Idempotent ==
    pc = "canon_canon" => canon2 = canon1

\* C1 (amended): canonical_scalar(canonical_scalar(x)) = canonical_scalar(x)
\* unless canonical_scalar(x) is "0" or "1" (a decimal-like cell of value 0 or
\* 1 that is not itself boolean-like, such as "1.0", "0.0", "00"); for those
\* the second application reads the digit as a boolean and gives "false" or
\* "true".
C1_IdempotentExceptZeroOne ==
    pc = "canon_canon" =>
        IF canon1 = <<"0">> THEN canon2 = <<"f", "a", "l", "s", "e">>
        ELSE IF canon1 = <<"1">> THEN canon2 = <<"t", "r", "u", "e">>
        ELSE canon2 = canon1

\* a decimal-like cell rewritten by canonical_scalar and then left alone
C1_Witness ==
    /\ pc = "canon_canon"
    /\ x = <<" ", "2", ".">>
    /\ canon1 = <<"2">>
    /\ canon2 = canon1

\* C10: value_similarity(x, x) = 1.0 for every raw cell x (None, empty,
\* whitespace-only, boolean-like, decimal-like, free text).
C10_SelfSimilarityOne ==
    (pc = "sim" /\ y = x) => sim = One

\* value_similarity(x, x) was computed for an absent cell
C10_Witness ==
    /\ pc = "sim"
    /\ y = x
    /\ x = None
    /\ sim = One

\* C11: value_similarity is symmetric: value_similarity(x, y) =
\* value_similarity(y, x) for all raw cells x and y, whichever branch decides
\* (emptiness, trimmed equality, boolean, decimal, edit distance).
C11_Symmetric ==
    pc = "sim_swapped" => sim_swapped = sim

\* both orders were computed for two free texts of different lengths, which
\* levenshtein_distance swaps in one order only, and gave a value strictly
\* between 0 and 1
C11_Witness ==
    /\ pc = "sim_swapped"
    /\ x = <<"k", "i", "t", "t", "e", "n">>
    /\ y = <<"s", "i", "t", "t", "i", "n", "g">>
    /\ sim = Rat(4, 7)
    /\ sim_swapped = sim

\* the least number of insertions, deletions and substitutions of one
\* character that turn a into b, by the recurrence on the first characters
RECURSIVE ClassicalLevenshtein(_, _)
ClassicalLevenshtein(a, b) ==
    IF a = <<>> THEN Len(b)
    ELSE IF b = <<>> THEN Len(a)
    ELSE Min2(Min2(ClassicalLevenshtein(Tail(a), b) + 1,
                   ClassicalLevenshtein(a, Tail(b)) + 1),
              ClassicalLevenshtein(Tail(a), Tail(b))
                  + (IF Head(a) = Head(b) THEN 0 ELSE 1))

\* C22: levenshtein_distance(x, y) is the classical Levenshtein distance for
\* all strings x and y, empty strings included and whichever is longer; it is
\* the same in both argument orders, 0 iff x = y, and at most
\* max(|x|, |y|).
C22_ClassicalLevenshtein ==
    pc = "lev" =>
        /\ lev = ClassicalLevenshtein(x, y)
        /\ lev = ClassicalLevenshtein(y, x)
        /\ lev = 0 <=> x = y
        /\ lev <= Max2(Len(x), Len(y))
        /\ lev >= Max2(Len(x), Len(y)) - Min2(Len(x), Len(y))

\* the distance of a shorter first string to a longer second one, which the
\* function swaps, with substitutions and an insertion
C22_Witness ==
    /\ pc = "lev"
    /\ x = <<"k", "i", "t", "t", "e", "n">>
    /\ y = <<"s", "i", "t", "t", "i", "n", "g">>
    /\ lev = 3

\* the ratio reaches the threshold of a typed column
AtLeastNineTenths(v) == RLeq(Rat(9, 10), v)

\* how many of the two profiles are boolean columns, numeric columns
BoolColumns ==
    Cardinality({p \in {"ref", "cand"} :
        AtLeastNineTenths(IF p = "ref" THEN ref_column_profile.bool_ratio
                          ELSE cand_column_profile.bool_ratio)})

NumericColumns ==
    Cardinality({p \in {"ref", "cand"} :
        AtLeastNineTenths(IF p = "ref" THEN ref_column_profile.numeric_ratio
                          ELSE cand_column_profile.numeric_ratio)})

\* C23: type_compatibility_score follows the decision table in priority
\* order: 1.0 if both bool_ratio >= 0.9; else 0.1 if exactly one bool_ratio
\* >= 0.9 (even when both numeric_ratio >= 0.9); else 1.0 if both
\* numeric_ratio >= 0.9; else 0.2 if exactly one numeric_ratio >= 0.9; else
\* 0.8; and it is symmetric in its two profiles.
C23_TypeDecisionTable ==
    /\ pc \in {"type", "type_swapped"} =>
          /\ BoolColumns = 2 => type_score = Rat(1, 1)
          /\ BoolColumns = 1 => type_score = Rat(1, 10)
          /\ (BoolColumns = 0 /\ NumericColumns = 2) => type_score = Rat(1, 1)
          /\ (BoolColumns = 0 /\ NumericColumns = 1) => type_score = Rat(2, 10)
          /\ (BoolColumns = 0 /\ NumericColumns = 0) => type_score = Rat(8, 10)
    /\ pc = "type_swapped" => type_score_swapped = type_score

\* exactly one profile is a boolean column while both are numeric columns,
\* one of them exactly at 0.9, and both orders gave 0.1
C23_Witness ==
    /\ pc = "type_swapped"
    /\ BoolColumns = 1
    /\ NumericColumns = 2
    /\ cand_column_profile.bool_ratio = Rat(89, 100)
    /\ ref_column_profile.numeric_ratio = Rat(9, 10)
    /\ type_score = Rat(1, 10)
    /\ type_score_swapped = Rat(1, 10)

\* a score lies in [0, 1]
InUnit(v) == RLeq(Zero, v) /\ RLeq(v, One)

\* the scores of one record of map_columns lie in [0, 1]
PairScoresInUnit(p) ==
    /\ InUnit(p.header_similarity)
    /\ InUnit(p.type_compatibility)
    /\ InUnit(p.sample_similarity)
    /\ InUnit(p.mapping_confidence)

\* C12: every similarity value the engine computes lies in [0, 1]:
\* value_similarity in both argument orders, both row coverages, and of
\* map_columns and score_columns the header similarity, type compatibility,
\* sample similarity and mapping confidence of every recorded pair, the average
\* mapping confidence, every per-reference-column similarity, the dataset
\* similarity and the coverage-weighted overall score.
C12_ScoresInUnitInterval ==
    /\ pc \in {"sim", "sim_swapped"} => InUnit(sim)
    /\ pc = "sim_swapped" => InUnit(sim_swapped)
    /\ alignment # <<>> =>
          /\ InUnit(alignment.coverage_reference)
          /\ InUnit(alignment.coverage_candidate)
    /\ key_match # <<>> =>
          \A k \in 1..Len(key_match.candidates) :
              /\ InUnit(key_match.candidates[k].header_similarity)
              /\ InUnit(key_match.candidates[k].candidate_key_coverage)
              /\ InUnit(key_match.candidates[k].reference_key_coverage)
    /\ column_mapping # <<>> =>
          /\ \A k \in 1..Len(column_mapping.pair_candidates_top) :
                PairScoresInUnit(column_mapping.pair_candidates_top[k])
          /\ \A r \in DOMAIN column_mapping.mapping :
                PairScoresInUnit(column_mapping.mapping[r])
          /\ InUnit(column_mapping.mapping_confidence_avg)
    /\ scoring # <<>> =>
          /\ \A k \in 1..Len(scoring.per_reference_column) :
                /\ InUnit(scoring.per_reference_column[k].similarity)
                /\ InUnit(scoring.per_reference_column[k].mapping_confidence)
          /\ InUnit(scoring.dataset_similarity_equal_weighted)
          /\ InUnit(scoring.overall_score_with_coverage)
    /\ report # <<>> =>
          /\ InUnit(report.row_alignment.coverage_reference)
          /\ InUnit(report.row_alignment.coverage_candidate)
          /\ \A k \in 1..Len(report.scores.per_reference_column) :
                InUnit(report.scores.per_reference_column[k].similarity)
          /\ InUnit(report.scores.dataset_similarity_equal_weighted)
          /\ InUnit(report.scores.overall_score_with_coverage)
          /\ InUnit(report.column_mapping.mapping_confidence_avg)

\* a returned report whose scores are strictly inside the interval: one row of
\* two aligned, 0 < overall score < dataset similarity < 1, and a recorded
\* pair whose mapping confidence is neither 0 nor 1
C12_Witness ==
    /\ pc = "done"
    /\ report.status = "partial_key_match"
    /\ report.row_alignment.coverage_reference = Rat(1, 2)
    /\ RLess(Zero, report.scores.overall_score_with_coverage)
    /\ RLess(report.scores.overall_score_with_coverage,
             report.scores.dataset_similarity_equal_weighted)
    /\ RLess(report.scores.dataset_similarity_equal_weighted, One)
    /\ \E k \in 1..Len(report.column_mapping.pair_candidates_top) :
          /\ RLess(Zero, report.column_mapping.pair_candidates_top[k].mapping_confidence)
          /\ RLess(report.column_mapping.pair_candidates_top[k].mapping_confidence, One)

-----------------------------------------------------------------------------
(* Claims about align_rows_by_key, on any two tables and any key pair. *)

\* C3: the pairs align_rows_by_key returns are injective in both directions:
\* no reference row index and no candidate row index occurs in two pairs,
\* duplicate and empty keys included.
C3_PairsInjective ==
    pc = "aligned" =>
        \A i, j \in 1..Len(alignment.pairs) :
            i # j => /\ alignment.pairs[i][1] # alignment.pairs[j][1]
                     /\ alignment.pairs[i][2] # alignment.pairs[j][2]

\* an alignment that paired a row although both key columns repeat a key
C3_Witness ==
    /\ pc = "aligned"
    /\ alignment.matched_rows = 1
    /\ alignment.duplicate_reference_keys = 1
    /\ alignment.duplicate_candidate_matches = 1

\* C5 (as stated): whenever align_rows_by_key reports complete, both coverages
\* are 1.0 and matched_rows is the number of reference rows, tables without
\* rows included.
C5_CompleteHasFullCoverage ==
    (pc = "aligned" /\ alignment.complete) =>
        /\ alignment.coverage_reference = One
        /\ alignment.coverage_candidate = One
        /\ alignment.matched_rows = Len(ref.rows)

\* C6: whenever align_rows_by_key reports complete, matched_rows is the number
\* of reference rows and of candidate rows, and the three counters are zero.
C6_CompleteCounts ==
    (pc = "aligned" /\ alignment.complete) =>
        /\ alignment.matched_rows = Len(ref.rows)
        /\ Len(ref.rows) = Len(cand.rows)
        /\ alignment.duplicate_reference_keys = 0
        /\ alignment.duplicate_candidate_matches = 0
        /\ alignment.missing_candidate_keys_or_unmatched = 0

\* a complete alignment of two rows whose candidate is in the other order
C6_Witness ==
    /\ pc = "aligned"
    /\ alignment.complete
    /\ alignment.pairs = <<<<1, 2>>, <<2, 1>>>>

\* the canonical key of a row
KeyOf(table, i, h) == canonical_scalar(Get(table, table.rows[i], h))

\* the canonical keys of the reference key column, empty ones left out
ReferenceKeys ==
    {KeyOf(ref, i, ref_key) : i \in 1..Len(ref.rows)} \ {<<>>}

\* C17 (as stated): missing_candidate_keys_or_unmatched is the number of
\* candidate rows whose canonical key is non-empty and absent from the
\* reference key index; candidate rows with an empty key do not count.
C17_MissingCountsNonEmptyKeysOnly ==
    pc = "aligned" =>
        alignment.missing_candidate_keys_or_unmatched
        = Cardinality({i \in 1..Len(cand.rows) :
              /\ KeyOf(cand, i, cand_key) # <<>>
              /\ KeyOf(cand, i, cand_key) \notin ReferenceKeys})

\* the rows of the table whose canonical key is k
RowsWithKey(table, h, k) == {i \in 1..Len(table.rows) : KeyOf(table, i, h) = k}

\* the lowest index of a non-empty set of rows
FirstOf(rows) == CHOOSE i \in rows : \A j \in rows : i <= j

\* the canonical keys of the candidate key column, empty ones left out
CandidateKeys ==
    {KeyOf(cand, i, cand_key) : i \in 1..Len(cand.rows)} \ {<<>>}

\* C18: for each non-empty canonical key on both sides align_rows_by_key
\* records the pair (lowest reference row with the key, lowest candidate row
\* with the key) and no other pair; each later reference occurrence of a key
\* adds one to duplicate_reference_keys, each later candidate occurrence of a
\* key of the reference adds one to duplicate_candidate_matches; reference rows
\* with an empty key touch no counter.
C18_FirstOccurrenceWins ==
    pc = "aligned" =>
        /\ {alignment.pairs[n] : n \in 1..Len(alignment.pairs)}
           = {<<FirstOf(RowsWithKey(ref, ref_key, k)), FirstOf(RowsWithKey(cand, cand_key, k))>> :
                 k \in ReferenceKeys \cap CandidateKeys}
        /\ Len(alignment.pairs) = Cardinality(ReferenceKeys \cap CandidateKeys)
        /\ alignment.duplicate_reference_keys
           = Cardinality({i \in 1..Len(ref.rows) :
                 /\ KeyOf(ref, i, ref_key) # <<>>
                 /\ i # FirstOf(RowsWithKey(ref, ref_key, KeyOf(ref, i, ref_key)))})
        /\ alignment.duplicate_candidate_matches
           = Cardinality({i \in 1..Len(cand.rows) :
                 /\ KeyOf(cand, i, cand_key) \in ReferenceKeys
                 /\ i # FirstOf(RowsWithKey(cand, cand_key, KeyOf(cand, i, cand_key)))})

\* the first reference row has an empty key and is skipped, the second is
\* paired with the first of two candidate rows of its key, and the second
\* candidate row is counted as a duplicate
C18_Witness ==
    /\ pc = "aligned"
    /\ Len(ref.rows) = 2
    /\ KeyOf(ref, 1, ref_key) = <<>>
    /\ alignment.pairs = <<<<2, 1>>>>
    /\ alignment.duplicate_reference_keys = 0
    /\ alignment.duplicate_candidate_matches = 1
    /\ alignment.missing_candidate_keys_or_unmatched = 0

\* C26: align_rows_by_key accounts for every candidate row exactly once:
\* matched_rows + duplicate_candidate_matches +
\* missing_candidate_keys_or_unmatched is the number of candidate rows, for
\* every input, and matched_rows is at most the smaller of the two row
\* counts.
C26_EveryCandidateRowCounted ==
    pc = "aligned" =>
        /\ alignment.matched_rows + alignment.duplicate_candidate_matches
              + alignment.missing_candidate_keys_or_unmatched = Len(cand.rows)
        /\ alignment.matched_rows = Len(alignment.pairs)
        /\ alignment.matched_rows <= Min2(Len(ref.rows), Len(cand.rows))

\* one candidate row was matched and every other one was counted as a
\* duplicate or as missing, one of them for its empty key
C26_Witness ==
    /\ pc = "aligned"
    /\ Len(cand.rows) = MaxRows
    /\ alignment.matched_rows = 1
    /\ alignment.duplicate_candidate_matches + alignment.missing_candidate_keys_or_unmatched
          = MaxRows - 1
    /\ alignment.missing_candidate_keys_or_unmatched >= 1
    /\ \E i \in 1..Len(cand.rows) : KeyOf(cand, i, cand_key) = <<>>

-----------------------------------------------------------------------------
(* Claims about compare_csv_files. *)

\* the report is the one compare_csv_files returned
Returned == pc = "done"

\* the table has a row, and a column whose cells are all non-empty and have
\* pairwise distinct canonical scalars
HasFullKeyColumn(table) ==
    /\ table.rows # <<>>
    /\ \E h \in SeqToSet(table.headers) :
          /\ \A i \in 1..Len(table.rows) : ~IsEmptyOf(Get(table, table.rows[i], h))
          /\ \A i, j \in 1..Len(table.rows) :
                i # j => CanonicalScalarOf(Get(table, table.rows[i], h))
                         # CanonicalScalarOf(Get(table, table.rows[j], h))

\* status ok, dataset similarity 1.0, every reference column mapped to the
\* candidate column of its own name
IdenticalReport ==
    /\ report.status = "ok"
    /\ report.scores.dataset_similarity_equal_weighted = One
    /\ \A h \in SeqToSet(ref.headers) :
          /\ h \in DOMAIN report.column_mapping.mapping
          /\ report.column_mapping.mapping[h].candidate_column = h

\* C2 (as stated): for every table T, compare_csv_files(T, T) returns status
\* ok, dataset similarity 1.0 and the same-name mapping.
C2_IdenticalTables ==
    (Returned /\ cand = ref) => IdenticalReport

\* C2 (amended): for every table T that has at least one row and a column whose
\* cells are all non-empty with pairwise distinct canonical scalars,
\* compare_csv_files(T, T) returns status ok, dataset similarity 1.0 and the
\* same-name mapping.
C2_IdenticalTablesWithKey ==
    (Returned /\ cand = ref /\ HasFullKeyColumn(ref)) => IdenticalReport

\* a table compared with itself whose only full key column is the second one
C2_Witness ==
    /\ Returned
    /\ cand = ref
    /\ ref.rows = <<<<<<>>, <<"a">>>>, <<<<"7">>, <<"8">>>>>>
    /\ IdenticalReport

\* C4: the mapping map_columns returns is injective in both directions: a
\* reference column has one entry, and no candidate column is the target of
\* two reference columns.
C4_MappingInjective ==
    pc \in {"score", "done"} /\ column_mapping # <<>> =>
        /\ \A r \in DOMAIN column_mapping.mapping :
              column_mapping.mapping[r].reference_column = r
        /\ \A r1, r2 \in DOMAIN column_mapping.mapping :
              r1 # r2 => column_mapping.mapping[r1].candidate_column
                         # column_mapping.mapping[r2].candidate_column

\* both reference columns are mapped, and a third pair that passes the
\* admission rule was left out because its columns were taken
C4_Witness ==
    /\ pc = "score"
    /\ Cardinality(DOMAIN column_mapping.mapping) = 2
    /\ \E k \in 1..Len(column_mapping.pair_candidates_top) :
          LET p == column_mapping.pair_candidates_top[k]
          IN  /\ Admitted(p)
              /\ column_mapping.mapping[p.reference_column].candidate_column
                 # p.candidate_column

\* the sum of value_similarity over the alignment pairs, for one column pair
RECURSIVE SimilaritySum(_, _, _)
SimilaritySum(ref_col, cand_col, k) ==
    IF k = 0 THEN Zero
    ELSE RAdd(SimilaritySum(ref_col, cand_col, k - 1),
              ValueSimilarityOf(
                  Get(ref, ref.rows[alignment.pairs[k][1]], ref_col),
                  Get(cand, cand.rows[alignment.pairs[k][2]], cand_col)))

\* the sum of the similarities of the first k per-reference-column entries
RECURSIVE EntrySum(_)
EntrySum(k) ==
    IF k = 0 THEN Zero
    ELSE RAdd(EntrySum(k - 1), scoring.per_reference_column[k].similarity)

\* C7: dataset_similarity_equal_weighted is the sum of the per-reference-column
\* similarities divided by the number of reference headers; an unmapped
\* reference column has an entry with similarity 0.0 and matched false, a
\* mapped one has the mean of value_similarity over all alignment pairs.
C7_DatasetScoreIsMeanOverHeaders ==
    (Returned /\ scoring # <<>>) =>
        /\ Len(scoring.per_reference_column) = Len(ref.headers)
        /\ RMul(scoring.dataset_similarity_equal_weighted, RInt(Len(ref.headers)))
           = EntrySum(Len(ref.headers))
        /\ \A k \in 1..Len(ref.headers) :
              LET e == scoring.per_reference_column[k]
                  h == ref.headers[k]
              IN  /\ e.reference_column = h
                  /\ e.matched = (h \in DOMAIN column_mapping.mapping)
                  /\ ~e.matched => e.similarity = Zero
                  /\ e.matched =>
                        /\ e.candidate_column = column_mapping.mapping[h].candidate_column
                        /\ RMul(e.similarity, RInt(Len(alignment.pairs)))
                           = SimilaritySum(h, e.candidate_column, Len(alignment.pairs))

\* one reference column is mapped and scores 1.0, the other is unmapped and
\* scores 0.0, over two aligned rows: the dataset score is 1/2
C7_Witness ==
    /\ Returned
    /\ scoring # <<>>
    /\ Len(alignment.pairs) = 2
    /\ scoring.mapped_reference_columns = 1
    /\ \E k \in 1..Len(ref.headers) :
          /\ ~scoring.per_reference_column[k].matched
          /\ scoring.per_reference_column[k].similarity = Zero
    /\ scoring.dataset_similarity_equal_weighted = Rat(1, 2)

\* what the key search and the alignment of a call came to
UsableKey == key_match.found_usable_match
RowsAligned == alignment # <<>>
AlignedComplete == RowsAligned /\ alignment.complete
MatchedRows == IF RowsAligned THEN alignment.matched_rows ELSE 0

\* C8: the status is ok iff the row alignment is complete; partial_key_match
\* iff a usable key was found, the alignment is not complete and
\* matched_rows > 0; no_complete_key_match iff no usable key exists or
\* matched_rows = 0.  The report carries exactly one of the three.
C8_StatusByKeyAndAlignment ==
    Returned =>
        /\ report.status \in {"ok", "partial_key_match", "no_complete_key_match"}
        /\ (report.status = "ok") = AlignedComplete
        /\ (report.status = "partial_key_match")
           = (UsableKey /\ ~AlignedComplete /\ MatchedRows > 0)
        /\ (report.status = "no_complete_key_match")
           = (~UsableKey \/ MatchedRows = 0)

\* a call that found a usable key and aligned one row of two
C8_Witness ==
    /\ Returned
    /\ report.status = "partial_key_match"
    /\ UsableKey
    /\ ~alignment.complete
    /\ alignment.matched_rows = 1
    /\ Len(ref.rows) = 2

\* the canonical non-empty value set of a column
CanonicalSet(table, h) ==
    {CanonicalScalarOf(Get(table, table.rows[i], h)) :
        i \in {k \in 1..Len(table.rows) : ~IsEmptyOf(Get(table, table.rows[k], h))}}

\* the column has a non-empty cell and no two non-empty cells of the same
\* canonical scalar
UniqueColumn(table, h) ==
    LET at == {k \in 1..Len(table.rows) : ~IsEmptyOf(Get(table, table.rows[k], h))}
    IN  /\ at # {}
        /\ \A i, j \in at :
              i # j => CanonicalScalarOf(Get(table, table.rows[i], h))
                       # CanonicalScalarOf(Get(table, table.rows[j], h))

\* no candidate column's canonical non-empty value set intersects a unique
\* reference column
NoUsableKey ==
    \A r \in SeqToSet(ref.headers), c \in SeqToSet(cand.headers) :
        UniqueColumn(ref, r) => CanonicalSet(ref, r) \cap CanonicalSet(cand, c) = {}

\* the zero report
ZeroReport ==
    /\ report.status = "no_complete_key_match"
    /\ Len(report.scores.per_reference_column) = Len(ref.headers)
    /\ \A k \in 1..Len(ref.headers) :
          /\ report.scores.per_reference_column[k].reference_column = ref.headers[k]
          /\ report.scores.per_reference_column[k].similarity = Zero
          /\ report.scores.per_reference_column[k].matched = FALSE
    /\ DOMAIN report.column_mapping.mapping = {}
    /\ report.column_mapping.reference_unmatched = ref.headers
    /\ report.column_mapping.candidate_unmatched = cand.headers
    /\ report.scores.dataset_similarity_equal_weighted = Zero
    /\ report.scores.overall_score_with_coverage = Zero
    /\ report.row_alignment.coverage_reference = Zero
    /\ report.row_alignment.coverage_candidate = Zero

\* C9: when no candidate column's canonical non-empty value set intersects a
\* unique reference column, compare_csv_files returns the zero report, with
\* key_match.reason no_exact_or_partial_unique_key_match.
C9_NoUsableKeyGivesZeroReport ==
    (Returned /\ NoUsableKey) =>
        /\ ZeroReport
        /\ report.key_match.reason = "no_exact_or_partial_unique_key_match"
        /\ ~report.key_match.found_usable_match

\* the reference has a unique column and every candidate column is unique,
\* but no candidate column shares a value with it
C9_Witness ==
    /\ Returned
    /\ NoUsableKey
    /\ UniqueColumn(ref, H_id)
    /\ Len(ref.rows) = 2
    /\ Len(cand.rows) = 2
    /\ \A c \in SeqToSet(cand.headers) : UniqueColumn(cand, c)
    /\ ZeroReport

-----------------------------------------------------------------------------
(* Claims about find_key_match inside compare_csv_files. *)

\* C14: in the ranking of find_key_match every key candidate with
\* complete_set_match stands before every candidate without it, whatever
\* their coverages and header similarities, and its score is strictly higher;
\* if any complete candidate exists, the chosen key pair is complete.
C14_CompleteRankedFirst ==
    key_match # <<>> =>
        /\ \A i, j \in 1..Len(key_match.candidates) :
              (key_match.candidates[i].complete_set_match
                  /\ ~key_match.candidates[j].complete_set_match)
              => /\ i < j
                 /\ RLess(key_match.candidates[j].score, key_match.candidates[i].score)
        /\ (\E i \in 1..Len(key_match.candidates) :
                key_match.candidates[i].complete_set_match)
           => /\ key_match.found_complete_match
              /\ key_match.candidates[1].complete_set_match
              /\ key_match.reference_column = key_match.candidates[1].reference_column
              /\ key_match.candidate_column = key_match.candidates[1].candidate_column

\* the chosen pair is complete although a partial candidate was enumerated
\* before it and has the higher header similarity
C14_Witness ==
    /\ key_match # <<>>
    /\ key_match.found_complete_match
    /\ key_match.reference_column = H_name
    /\ \E j \in 2..Len(key_match.candidates) :
          /\ ~key_match.candidates[j].complete_set_match
          /\ key_match.candidates[j].reference_column = H_id
          /\ RLess(key_match.candidates[1].header_similarity,
                   key_match.candidates[j].header_similarity)

\* C15: after find_key_match has chosen a key pair, align_rows_by_key on that
\* pair matches as many rows as the chosen candidate's intersection_count
\* (more than 0), counts no duplicate on either side, and reports
\* matched_rows / |ref.rows| and matched_rows / |cand.rows| as coverages; the
\* call never returns the zero report for matched_rows = 0 once a usable key
\* was found.
C15_AlignmentMatchesIntersection ==
    /\ alignment # <<>> =>
          /\ key_match.found_usable_match
          /\ alignment.matched_rows = key_match.candidates[1].intersection_count
          /\ alignment.matched_rows > 0
          /\ alignment.duplicate_reference_keys = 0
          /\ alignment.duplicate_candidate_matches = 0
          /\ alignment.coverage_reference = Rat(alignment.matched_rows, Len(ref.rows))
          /\ alignment.coverage_candidate = Rat(alignment.matched_rows, Len(cand.rows))
          /\ pc \in {"map", "score", "done"}
    /\ (pc = "done" /\ key_match.found_usable_match) =>
          /\ alignment # <<>>
          /\ report.status # "no_complete_key_match"
          /\ report.row_alignment.matched_rows = alignment.matched_rows

\* a partial key pair: one of two candidate keys is in the reference, the
\* other is counted as missing, and both coverages are 1/2
C15_Witness ==
    /\ pc = "done"
    /\ alignment # <<>>
    /\ ~key_match.found_complete_match
    /\ key_match.candidates[1].intersection_count = 1
    /\ key_match.candidates[1].candidate_non_empty_count = 2
    /\ alignment.matched_rows = 1
    /\ alignment.missing_candidate_keys_or_unmatched = 1
    /\ alignment.coverage_reference = Rat(1, 2)
    /\ alignment.coverage_candidate = Rat(1, 2)

\* no two non-empty cells of the column have the same canonical scalar
NoRepeatedValue(table, h) ==
    \A i, j \in 1..Len(table.rows) :
        (i # j /\ ~IsEmptyOf(Get(table, table.rows[i], h))
               /\ ~IsEmptyOf(Get(table, table.rows[j], h)))
        => CanonicalScalarOf(Get(table, table.rows[i], h))
           # CanonicalScalarOf(Get(table, table.rows[j], h))

\* C16: every key candidate find_key_match records, the chosen pair included,
\* has a reference column with at least one non-empty cell and no repeated
\* canonical value, a candidate column with no repeated canonical value, and
\* two canonical non-empty sets that share a value; so found_usable_match is
\* true whenever the candidate list is not empty.
C16_CandidatesUniqueAndIntersecting ==
    key_match # <<>> =>
        /\ \A k \in 1..Len(key_match.candidates) :
              LET c == key_match.candidates[k]
              IN  /\ UniqueColumn(ref, c.reference_column)
                  /\ NoRepeatedValue(cand, c.candidate_column)
                  /\ CanonicalSet(ref, c.reference_column)
                         \cap CanonicalSet(cand, c.candidate_column) # {}
                  /\ c.intersection_count > 0
        /\ key_match.found_usable_match = (key_match.candidates # <<>>)
        /\ key_match.found_usable_match =>
              /\ key_match.reference_column = key_match.candidates[1].reference_column
              /\ key_match.candidate_column = key_match.candidates[1].candidate_column

\* two candidates were recorded, and the chosen pair has an empty cell in its
\* reference column and in its candidate column
C16_Witness ==
    /\ key_match # <<>>
    /\ Len(key_match.candidates) >= 2
    /\ \E i \in 1..Len(ref.rows) :
          IsEmptyOf(Get(ref, ref.rows[i], key_match.reference_column))
    /\ \E i \in 1..Len(cand.rows) :
          IsEmptyOf(Get(cand, cand.rows[i], key_match.candidate_column))

\* both key candidates are partial matches
BothPartial(a, b) == ~a.complete_set_match /\ ~b.complete_set_match

\* a is at least b in candidate coverage, reference coverage and header
\* similarity, and greater in one of them
Dominates(a, b) ==
    /\ ~RLess(a.candidate_key_coverage, b.candidate_key_coverage)
    /\ ~RLess(a.reference_key_coverage, b.reference_key_coverage)
    /\ ~RLess(a.header_similarity, b.header_similarity)
    /\ \/ RLess(b.candidate_key_coverage, a.candidate_key_coverage)
       \/ RLess(b.reference_key_coverage, a.reference_key_coverage)
       \/ RLess(b.header_similarity, a.header_similarity)

C24_CompleteKeyGivesCompleteAlignment ==
    (Returned /\ key_match.found_complete_match) =>
        /\ alignment # <<>>
        /\ alignment.complete
        /\ report.status = "ok"

-----------------------------------------------------------------------------
(* Claims about map_columns inside compare_csv_files. *)

\* alignment_pairs[: min(sample_size, len(alignment_pairs))] of the call
SamplePairs == SubSeq(alignment.pairs, 1, Min2(sample_size, Len(alignment.pairs)))

\* 0.35 * h + 0.10 * t + 0.55 * s for the column pair, from the tables
WeightedScore(r, c) ==
    RAdd(RAdd(RMul(Rat(35, 100), HeaderSimilarityOf(r, c)),
              RMul(Rat(10, 100),
                   type_compatibility_score(ColumnProfile(ref, r), ColumnProfile(cand, c)))),
         RMul(Rat(55, 100),
              sample_column_similarity_fast(ref, cand, SamplePairs, r, c)))

\* the record passes one of the two thresholds
PassesThreshold(p) ==
    \/ RLeq(Rat(55, 100), p.mapping_confidence)
    \/ RLeq(Rat(85, 100), p.sample_similarity)

\* C19: every pair map_columns accepts into the mapping has
\* mapping_confidence >= 0.55 or sample_similarity >= 0.85, its
\* mapping_confidence being 0.35 * header_similarity + 0.10 * type_compatibility
\* + 0.55 * sample_similarity (recorded to six decimals); a pair that fails
\* both thresholds is never mapped.
C19_AdmissionRule ==
    column_mapping # <<>> =>
        /\ \A r \in DOMAIN column_mapping.mapping :
              LET p == column_mapping.mapping[r]
              IN  /\ PassesThreshold(p)
                  /\ p.reference_column = r
                  /\ p.mapping_confidence = Round6(WeightedScore(r, p.candidate_column))
                  /\ p.sample_similarity
                     = Round6(sample_column_similarity_fast(ref, cand, SamplePairs,
                                                            r, p.candidate_column))
        /\ \A k \in 1..Len(column_mapping.pair_candidates_top) :
              LET p == column_mapping.pair_candidates_top[k]
              IN  ~PassesThreshold(p) =>
                      \/ p.reference_column \notin DOMAIN column_mapping.mapping
                      \/ column_mapping.mapping[p.reference_column].candidate_column
                         # p.candidate_column

\* one pair was accepted with a header similarity below 1, and a pair whose
\* two columns stayed free to the end was refused on both thresholds
C19_Witness ==
    /\ column_mapping # <<>>
    /\ \E r \in DOMAIN column_mapping.mapping :
          /\ RLess(column_mapping.mapping[r].header_similarity, Rat(1, 1))
          /\ RLeq(Rat(55, 100), column_mapping.mapping[r].mapping_confidence)
    /\ \E k \in 1..Len(column_mapping.pair_candidates_top) :
          LET p == column_mapping.pair_candidates_top[k]
          IN  /\ ~PassesThreshold(p)
              /\ RLess(Rat(0, 1), p.mapping_confidence)
              /\ SeqToSet(column_mapping.reference_unmatched) = {p.reference_column}
              /\ SeqToSet(column_mapping.candidate_unmatched) = {p.candidate_column}

\* the records of map_columns for the pairs of two columns left unmatched
FreePairs ==
    {k \in 1..Len(column_mapping.pair_candidates_top) :
        /\ column_mapping.pair_candidates_top[k].reference_column
              \in SeqToSet(column_mapping.reference_unmatched)
        /\ column_mapping.pair_candidates_top[k].candidate_column
              \in SeqToSet(column_mapping.candidate_unmatched)}

\* C25: the greedy mapping of map_columns is maximal for the admission rule:
\* every (reference column, candidate column) pair has a record, after the
\* selection no pair of an unmatched reference column and an unmatched
\* candidate column has mapping_confidence >= 0.55 or sample_similarity >=
\* 0.85, and the first pair of the sorted list is mapped whenever it passes
\* the rule.
C25_GreedyMappingMaximal ==
    column_mapping # <<>> =>
        /\ Len(column_mapping.pair_candidates_top)
              = Min2(TopPairCandidates, Len(ref.headers) * Len(cand.headers))
        /\ SeqToSet(column_mapping.reference_unmatched)
              = SeqToSet(ref.headers) \ DOMAIN column_mapping.mapping
        /\ SeqToSet(column_mapping.candidate_unmatched)
              = SeqToSet(cand.headers)
                  \ {column_mapping.mapping[r].candidate_column :
                        r \in DOMAIN column_mapping.mapping}
        /\ \A k \in FreePairs : ~PassesThreshold(column_mapping.pair_candidates_top[k])
        /\ (/\ column_mapping.pair_candidates_top # <<>>
            /\ PassesThreshold(column_mapping.pair_candidates_top[1]))
           => /\ column_mapping.pair_candidates_top[1].reference_column
                    \in DOMAIN column_mapping.mapping
              /\ column_mapping.mapping[column_mapping.pair_candidates_top[1].reference_column]
                    = column_mapping.pair_candidates_top[1]

\* the first pair of the list was mapped, and the one pair whose two columns
\* are left unmatched has some sample similarity but fails both thresholds
C25_Witness ==
    /\ column_mapping # <<>>
    /\ Len(column_mapping.pair_candidates_top) = 4
    /\ DOMAIN column_mapping.mapping
          = {column_mapping.pair_candidates_top[1].reference_column}
    /\ \E k \in FreePairs :
          /\ FreePairs = {k}
          /\ RLess(Zero, column_mapping.pair_candidates_top[k].sample_similarity)
          /\ RLess(column_mapping.pair_candidates_top[k].sample_similarity, Rat(85, 100))
          /\ RLess(column_mapping.pair_candidates_top[k].mapping_confidence, Rat(55, 100))

-----------------------------------------------------------------------------
(* Claims about the two sorts inside compare_csv_files. *)

\* the place of the column pair in the enumeration of both loops: reference
\* header order, then candidate header order
EnumerationIndex(p) ==
    CHOOSE k \in 1..Len(HeaderPairs(ref, cand)) :
        HeaderPairs(ref, cand)[k] = <<p.reference_column, p.candidate_column>>

KeyCandidateKey(p) == <<p.score, RInt(p.reference_non_empty_count)>>

PairRecordKey(p) == <<p.mapping_confidence, p.sample_similarity, p.header_similarity>>

\* a before b in a descending stable sort of the enumeration
InSortedOrder(ka, kb, a, b) ==
    \/ LexLess(kb, ka)
    \/ /\ ~LexLess(ka, kb)
       /\ EnumerationIndex(a) < EnumerationIndex(b)

\* C20: both descending sorts are stable: key candidates with equal
\* (score, reference_non_empty_count) and pair records with equal
\* (mapping_confidence, sample_similarity, header_similarity) keep their
\* enumeration order (reference header order, then candidate header order),
\* so each list has one possible order, the selected key is its first key
\* candidate, the greedy mapping takes for a reference column the first
\* admitted record whose candidate column is free, and all four are a
\* function of the two tables.
C20_SortsStable ==
    /\ key_match # <<>> =>
          /\ \A i, j \in 1..Len(key_match.candidates) :
                i < j => InSortedOrder(KeyCandidateKey(key_match.candidates[i]),
                                       KeyCandidateKey(key_match.candidates[j]),
                                       key_match.candidates[i], key_match.candidates[j])
          /\ key_match.candidates # <<>> =>
                /\ key_match.reference_column = key_match.candidates[1].reference_column
                /\ key_match.candidate_column = key_match.candidates[1].candidate_column
    /\ column_mapping # <<>> =>
          /\ \A i, j \in 1..Len(column_mapping.pair_candidates_top) :
                i < j => InSortedOrder(PairRecordKey(column_mapping.pair_candidates_top[i]),
                                       PairRecordKey(column_mapping.pair_candidates_top[j]),
                                       column_mapping.pair_candidates_top[i],
                                       column_mapping.pair_candidates_top[j])
          /\ \A r \in DOMAIN column_mapping.mapping :
                \A k \in 1..Len(column_mapping.pair_candidates_top) :
                    LET p == column_mapping.pair_candidates_top[k]
                    IN  (/\ p.reference_column = r
                         /\ PassesThreshold(p)
                         /\ InSortedOrder(PairRecordKey(p), PairRecordKey(column_mapping.mapping[r]),
                                          p, column_mapping.mapping[r]))
                        => p.candidate_column \in
                               {column_mapping.mapping[q].candidate_column :
                                   q \in DOMAIN column_mapping.mapping \ {r}}

\* the two best key candidates tie on (score, reference_non_empty_count), so
\* the tie decides the selected key, and two pair records tie on their three
\* scores, the first of them passing a threshold
C20_Witness ==
    /\ column_mapping # <<>>
    /\ Len(key_match.candidates) >= 2
    /\ KeyCandidateKey(key_match.candidates[1]) = KeyCandidateKey(key_match.candidates[2])
    /\ key_match.candidates[1].reference_column # key_match.candidates[2].reference_column
    /\ \E i, j \in 1..Len(column_mapping.pair_candidates_top) :
          /\ i < j
          /\ PairRecordKey(column_mapping.pair_candidates_top[i])
             = PairRecordKey(column_mapping.pair_candidates_top[j])
          /\ PassesThreshold(column_mapping.pair_candidates_top[i])

-----------------------------------------------------------------------------
(* Claims about every call that computes a score. *)

\* the two cells of the aligned pair under a mapped column pair
AlignedCells(i, ref_col, cand_col) ==
    <<Get(ref, ref.rows[alignment.pairs[i][1]], ref_col),
      Get(cand, cand.rows[alignment.pairs[i][2]], cand_col)>>

\* every aligned pair of the two columns has canonically equal cells
AllCanonicallyEqual(ref_col, cand_col) ==
    \A i \in 1..Len(alignment.pairs) :
        CanonicalScalarOf(AlignedCells(i, ref_col, cand_col)[1])
        = CanonicalScalarOf(AlignedCells(i, ref_col, cand_col)[2])

\* C27: the exact match of the mapper agrees with the scorer: for all raw
\* cells x and y, canonical_scalar(x) = canonical_scalar(y) implies
\* value_similarity(x, y) = 1.0, so a mapped column whose aligned cells are
\* all canonically equal gets the per-column similarity 1.0.
C27_CanonicalEqualScoresOne ==
    /\ (pc = "sim" /\ canonical_scalar(x) = canonical_scalar(y)) => sim = One
    /\ (pc = "sim_swapped" /\ canonical_scalar(x) = canonical_scalar(y))
          => sim_swapped = One
    /\ (pc = "done" /\ scoring # <<>>) =>
          \A k \in 1..Len(scoring.per_reference_column) :
              LET e == scoring.per_reference_column[k]
              IN  (e.matched /\ AllCanonicallyEqual(e.reference_column, e.candidate_column))
                  => e.similarity = One

\* a mapped column with a pair of aligned cells that differ as text and are
\* canonically equal got the similarity 1.0
C27_Witness ==
    /\ scoring # <<>>
    /\ \E k \in 1..Len(scoring.per_reference_column) :
          LET e == scoring.per_reference_column[k]
          IN  /\ e.matched
              /\ AllCanonicallyEqual(e.reference_column, e.candidate_column)
              /\ e.similarity = One
              /\ \E i \in 1..Len(alignment.pairs) :
                    /\ AlignedCells(i, e.reference_column, e.candidate_column)[1]
                          # AlignedCells(i, e.reference_column, e.candidate_column)[2]
                    /\ AlignedCells(i, e.reference_column, e.candidate_column)[1] # <<>>

\* the rows of the table whose cell under h find_key_match and
\* profile_columns take as a value: is_empty is false
RowsNotEmpty(table, h) ==
    {i \in 1..Len(table.rows) : ~IsEmptyOf(Get(table, table.rows[i], h))}

\* the rows of the table align_rows_by_key takes as keyed under h: the
\* canonical key is not ""
RowsWithCanonicalKey(table, h) ==
    {i \in 1..Len(table.rows) : CanonicalScalarOf(Get(table, table.rows[i], h)) # <<>>}

\* the two sets of rows are the same and the profile counts them; a column
\* without a value is not unique
EmptinessAgreesIn(table) ==
    LET Agrees(h, profile) ==
            /\ RowsNotEmpty(table, h) = RowsWithCanonicalKey(table, h)
            /\ profile.non_empty_count = Cardinality(RowsWithCanonicalKey(table, h))
            /\ profile.non_empty_count = 0 => ~profile.is_unique_non_empty
    IN  \A h \in SeqToSet(table.headers) : Agrees(h, ColumnProfile(table, h))

\* C28: the two emptiness tests used for keys agree: for every raw cell x,
\* canonical_scalar(x) = "" iff is_empty(x); so the rows find_key_match takes
\* as having a key are the rows align_rows_by_key indexes, and a column with
\* non_empty_count = 0 is never is_unique_non_empty.  A profile depends on
\* its own table only, and every table is the candidate of a call whose
\* reference has no rows: each table is looked at once, at the start of that
\* call.
C28_EmptinessTestsAgree ==
    /\ pc = "canon" => ((canon1 = <<>>) <=> is_empty(x))
    /\ pc = "canon_canon" => ((canon2 = <<>>) <=> is_empty(canon1))
    /\ (pc = "start" /\ ref.rows = <<>>) =>
          (EmptinessAgreesIn(ref) /\ EmptinessAgreesIn(cand))
    /\ pc = "map" =>
          /\ \A k \in 1..Len(alignment.pairs) :
                /\ alignment.pairs[k][1] \in RowsNotEmpty(ref, ref_key)
                /\ alignment.pairs[k][2] \in RowsNotEmpty(cand, cand_key)
          /\ key_match.candidates[1].reference_non_empty_count
                = Cardinality(RowsWithCanonicalKey(ref, ref_key))
          /\ key_match.candidates[1].candidate_non_empty_count
                = Cardinality(RowsWithCanonicalKey(cand, cand_key))

\* canonical_scalar gave "" for a cell of blanks, which is not the empty
\* string and is empty for is_empty
C28_Witness ==
    /\ pc = "canon"
    /\ x = <<" ", " ">>
    /\ canon1 = <<>>
    /\ is_empty(x)

-----------------------------------------------------------------------------
(* Claims about compare_csv_files on a shuffled candidate. *)

\* both calls chose the same key column pair
SameKeyPair ==
    /\ report_shuffled.key_match.reference_column = report.key_match.reference_column
    /\ report_shuffled.key_match.candidate_column = report.key_match.candidate_column

\* two candidate columns tie against one reference column on
\* (mapping_confidence, sample_similarity, header_similarity)
ColumnsTie ==
    \E i, j \in 1..Len(report.column_mapping.pair_candidates_top) :
        LET p == report.column_mapping.pair_candidates_top[i]
            q == report.column_mapping.pair_candidates_top[j]
        IN  /\ i # j
            /\ p.reference_column = q.reference_column
            /\ p.mapping_confidence = q.mapping_confidence
            /\ p.sample_similarity = q.sample_similarity
            /\ p.header_similarity = q.header_similarity

SameDatasetSimilarity ==
    report_shuffled.scores.dataset_similarity_equal_weighted
    = report.scores.dataset_similarity_equal_weighted

\* C13 (as stated): with the same key column pair, permuting the candidate's
\* rows and/or columns gives the same dataset_similarity_equal_weighted, for
\* every sample_size_mapping and also when candidate columns tie on
\* (mapping_confidence, sample_similarity, header_similarity).
C13_ShuffleInvariant ==
    (pc = "shuffled" /\ SameKeyPair) => SameDatasetSimilarity

\* C13 (amended): for a candidate of at most 500 rows (the cells a column
\* profile samples) and the same key column pair, permuting the candidate's
\* rows gives the same dataset_similarity_equal_weighted for every
\* sample_size_mapping; permuting its columns gives the same value when no two
\* candidate columns tie against one reference column on
\* (mapping_confidence, sample_similarity, header_similarity).
C13_ShuffleInvariantWithoutTies ==
    (pc = "shuffled" /\ SameKeyPair
        /\ Len(cand.rows) <= ProfileSampleSize
        /\ (cand_shuffled.headers = cand.headers \/ ~ColumnsTie))
    => SameDatasetSimilarity

\* rows and columns were both permuted, no columns tie, and both calls gave
\* the same dataset similarity strictly between 0 and 1
C13_Witness ==
    /\ pc = "shuffled"
    /\ SameKeyPair
    /\ report.key_match.found_usable_match
    /\ ~ColumnsTie
    /\ cand_shuffled.headers # cand.headers
    /\ Len(cand.rows) = 2
    /\ cand_shuffled.rows[1] # <<cand.rows[1][2], cand.rows[1][1]>>
    /\ SameDatasetSimilarity
    /\ RLess(Zero, report.scores.dataset_similarity_equal_weighted)
    /\ RLess(report.scores.dataset_similarity_equal_weighted, One)

====
